---- MODULE Spec2Model ----
(***************************************************************************)
(* A model of stravaweblib's scraping client (stravaweblib/webclient.py):  *)
(* the session state of ScrapingClient (cookies, the cached CSRF pair),    *)
(* the two login paths, WebClient's account cross-check, delete_activity   *)
(* and the get_activities generator.  Every HTTP request the client sends  *)
(* is appended to `log`; the server's answers are inputs of the actions.   *)
(* Spec runs the session operations from construction on; SpecList runs    *)
(* the listing generator on a client resumed from a token.  SpecGear adds  *)
(* the gear calls (get_bike_details, get_gear, get_all_bikes,              *)
(* get_all_shoes) to the listing; SpecPure applies the pure functions      *)
(* (workout type decoding, component dates, distances,                     *)
(* components_on_date) to inputs drawn from bounded sets; SpecLazy reads   *)
(* and assigns the LazyLoaded attributes of one entity (model.py).         *)
(* SpecExport runs get_activity_data, SpecChallenge get_challenge, and     *)
(* SpecAthlete get_athlete followed by readings of the athlete's bikes and *)
(* shoes.                                                                  *)
(***************************************************************************)
EXTENDS Integers, Sequences, FiniteSets, TLC

\* ---------------------------------------------------------------- bounds
\* time.time() and the 'exp' field range over 0..MaxTime
MaxTime == 2
\* no operation is started once the log holds MaxReq requests
MaxReq == 3
\* pages one listing may request: no request is sent for a page beyond MaxPages
MaxPages == 2

\* ------------------------------------------------------- python helpers
\* The decimal digits, as the characters str() produces and int() reads.
DigitChars == <<"0", "1", "2", "3", "4", "5", "6", "7", "8", "9">>

\* Raised-exception marker for int(): no athlete id can be negative.
NotAnInt == -1

\* value of one character, NotAnInt for a non-digit
DigitVal(c) ==
    IF \E d \in 1..10 : DigitChars[d] = c
    THEN (CHOOSE d \in 1..10 : DigitChars[d] = c) - 1
    ELSE NotAnInt

RECURSIVE py_str(_)
\* str(n) for a non-negative int: its decimal digits, most significant first
py_str(n) ==
    IF n < 10 THEN <<DigitChars[n + 1]>>
    ELSE py_str(n \div 10) \o <<DigitChars[(n % 10) + 1]>>

RECURSIVE py_int(_)
\* int(s) for a string of characters: NotAnInt when int() raises
py_int(s) ==
    IF Len(s) = 0 THEN NotAnInt
    ELSE IF DigitVal(s[Len(s)]) = NotAnInt THEN NotAnInt
    ELSE IF Len(s) = 1 THEN DigitVal(s[1])
    ELSE IF py_int(SubSeq(s, 1, Len(s) - 1)) = NotAnInt THEN NotAnInt
    ELSE 10 * py_int(SubSeq(s, 1, Len(s) - 1)) + DigitVal(s[Len(s)])

\* {**a, **b}: the keys of both, b's value where both have the key
DictMerge(a, b) ==
    [k \in (DOMAIN a) \cup (DOMAIN b) |-> IF k \in DOMAIN b THEN b[k] ELSE a[k]]

\* the empty dict; also stands for None where the code only tests truthiness
EmptyDict == [k \in {} |-> "x"]

\* url.endswith("/" + "/".join(suffix)); a url is its sequence of path segments
EndsWith(url, suffix) ==
    /\ Len(url) >= Len(suffix)
    /\ SubSeq(url, Len(url) - Len(suffix) + 1, Len(url)) = suffix

\* ------------------------------------------------------------ JSON / JWT
\* JSON scalars of a token payload
JsonInt(n) == [kind |-> "int", n |-> n, s |-> <<>>]
JsonStr(s) == [kind |-> "str", n |-> 0, s |-> s]

\* str(v) of a JSON scalar
JsonToStr(v) == IF v.kind = "int" THEN py_str(v.n) ELSE v.s
\* int(v) of a JSON scalar
JsonToInt(v) == IF v.kind = "int" THEN v.n ELSE py_int(v.s)

\* subjects a token may carry: an int, a numeric string, a non-numeric string
SubValues ==
    {JsonInt(12), JsonStr(<<"0", "7">>), JsonStr(<<"x">>)}

\* payload dicts: any subset of the keys 'exp' and 'sub'
PayloadDicts ==
    {EmptyDict}
      \cup {("exp" :> JsonInt(e)) : e \in 0..MaxTime}
      \cup {("sub" :> s) : s \in SubValues}
      \cup {("exp" :> JsonInt(e)) @@ ("sub" :> s) : e \in 0..MaxTime, s \in SubValues}

\* the middle segment of a token: whether b64decode + json.loads succeed on
\* it, and the dict they give
Undecodable == [decodable |-> FALSE, data |-> EmptyDict]
Payloads == {Undecodable} \cup {[decodable |-> TRUE, data |-> d] : d \in PayloadDicts}

\* a token is its number of '.'-separated segments and its second segment.
\* NoJwt is None (or ""), the falsy value.
NoJwt == [nseg |-> 0, payload |-> Undecodable]
Jwts ==
    {[nseg |-> 1, payload |-> Undecodable]}
      \cup {[nseg |-> 3, payload |-> p] : p \in Payloads}
      \cup {[nseg |-> 2, payload |-> [decodable |-> TRUE,
                 data |-> ("exp" :> JsonInt(MaxTime)) @@ ("sub" :> JsonInt(12))]]}

\* ----------------------------------------------------------- the server
\* The about page: the <meta> tags of its head, each with its attributes.
NoAttrs == EmptyDict
AboutPage(param, token) == DictMerge(param, token)
AboutPages ==
    {AboutPage(("csrf-param" :> ("content" :> "authenticity_token")), t) :
        t \in {("csrf-token" :> ("content" :> "tokA")),
               ("csrf-token" :> ("content" :> "tokB")),
               EmptyDict}}
      \cup {AboutPage(p, ("csrf-token" :> ("content" :> "tokA"))) :
        p \in {EmptyDict, ("csrf-param" :> NoAttrs)}}

\* A response to a POST: resp.is_redirect, resp.status_code, resp.next.url
\* and the identity cookie it sets ("" for none).
NoUrl == <<>>
RedirectTargets ==
    {<<"login">>, <<"dashboard">>, <<"athlete", "training">>,
     <<"athlete", "training", "1">>}
NoSetCookie == <<>>
SetIds == {NoSetCookie, <<"1", "2">>}
PostResponses ==
    {[is_redirect |-> FALSE, status_code |-> c, next_url |-> NoUrl, set_id |-> NoSetCookie] :
        c \in {200, 404}}
      \cup {[is_redirect |-> TRUE, status_code |-> 302, next_url |-> u, set_id |-> i] :
        u \in RedirectTargets, i \in SetIds}
\* the answers to a delete request: they set no identity cookie
DeleteResponses == {r \in PostResponses : r.set_id = NoSetCookie}
NoResponse == [is_redirect |-> FALSE, status_code |-> 0, next_url |-> NoUrl, set_id |-> NoSetCookie]

\* the token cookie the site sets with a successful password login
ServerJwt ==
    [nseg |-> 3, payload |-> [decodable |-> TRUE,
        data |-> ("exp" :> JsonInt(MaxTime)) @@ ("sub" :> JsonInt(12))]]

\* ids the REST API may report for its athlete; ApiFault: get_athlete raises
ApiFault == -2
ApiIds == {7, 12, ApiFault}

\* ---------------------------------------------------------- the requests
\* a request: form is the POSTed data, page and params the query of a listing
Request(method, service, id, form, page, params) ==
    [method |-> method, service |-> service, id |-> id, form |-> form,
     page |-> page, params |-> params]

\* caller inputs
Emails == {"", "me@example.com"}
Passwords == {"", "secret"}
CsrfArgs == {EmptyDict, ("authenticity_token" :> "tokP")}
ActivityIds == {1}

\* ----------------------------------------------------- activity listing
\* most records a page of the listing holds
MaxPerPage == 2
\* largest limit get_activities is called with
MaxLimit == 2
\* workout type codes a record may carry range over 0..MaxWorkoutCode
MaxWorkoutCode == 13
\* most components a bike holds when components_on_date is asked
MaxComponents == 2
\* most rows the component table of a bike page shows
MaxRows == 1
\* most gear the athlete's bike or shoe listing holds
MaxGear == 1
\* most readings and assignments of one entity's lazy attributes
MaxAccess == 3

\* Python's None for an optional string argument
PyNone == "<None>"
\* an optional number is <<>> (None) or <<n>>
NoneNum == <<>>
Some(n) == <<n>>

\* ACTIVITY_WORKOUT_TYPES; the key None is PyNone
ACTIVITY_WORKOUT_TYPES ==
    ("Ride" :> ((PyNone :> 10) @@ ("Race" :> 11) @@ ("Workout" :> 12)))
      @@ ("Run" :> ((PyNone :> 0) @@ ("Race" :> 1) @@ ("Long Run" :> 2)
                      @@ ("Workout" :> 3)))

\* stravalib's Activity.TYPES, as far as the model's inputs go
ActivityTypes == {"Ride", "Run", "Swim"}

\* timegm of datetime.max and datetime.min: beyond every start date
DatetimeMaxEpoch == MaxTime + 1
DatetimeMinEpoch == 0 - 1

\* the raw records the listing endpoint may return
RawActivities ==
    {[id |-> 1, type |-> "Ride", workout_type |-> Some(11), start_date |-> MaxTime],
     [id |-> 2, type |-> "Swim", workout_type |-> NoneNum, start_date |-> 1],
     [id |-> 3, type |-> "Run", workout_type |-> Some(7), start_date |-> 0]}

RECURSIVE SeqsUpTo(_, _)
\* the sequences over S of length at most n
SeqsUpTo(S, n) ==
    IF n = 0 THEN {<<>>}
    ELSE SeqsUpTo(S, n - 1)
           \cup {Append(q, x) : q \in {r \in SeqsUpTo(S, n - 1) : Len(r) = n - 1}, x \in S}

\* a response of the listing endpoint: its status, whether the body is JSON
\* with a "models" key, and the records under that key
ListResponse(code, body, models) ==
    [status_code |-> code, body |-> body, models |-> models]
ListResponses ==
    {ListResponse(500, "html", <<>>), ListResponse(200, "html", <<>>),
     ListResponse(200, "json_without_models", <<>>)}
      \cup {ListResponse(200, "json", m) : m \in SeqsUpTo(RawActivities, MaxPerPage)}

\* the arguments of get_activities
ListArgs(keywords, activity_type, workout_type, commute, is_private, indoor, gear_id, before, after, limit) ==
    [keywords |-> keywords, activity_type |-> activity_type,
     workout_type |-> workout_type, commute |-> commute,
     is_private |-> is_private, indoor |-> indoor, gear_id |-> gear_id,
     before |-> before, after |-> after, limit |-> limit]

\* filter arguments the model calls get_activities with:
\* <<keywords, activity_type, workout_type, commute, is_private, indoor, gear_id>>
FilterArgs ==
    {<<"kw", "Ride", "Race", TRUE, FALSE, TRUE, "b1">>,
     <<PyNone, "Bogus", PyNone, FALSE, FALSE, FALSE, PyNone>>,
     <<PyNone, "Run", "Bogus", FALSE, TRUE, FALSE, PyNone>>,
     <<PyNone, "Swim", "Race", FALSE, FALSE, FALSE, PyNone>>,
     <<PyNone, PyNone, PyNone, FALSE, FALSE, FALSE, "b1">>}
Windows == {NoneNum, Some(1)}
Limits == {NoneNum} \cup {Some(l) : l \in 0..MaxLimit}
NoFilter == <<PyNone, PyNone, PyNone, FALSE, FALSE, FALSE, PyNone>>
\* any window and limit without filters, any filters without window and limit
ListArgsSet ==
    {ListArgs(f[1], f[2], f[3], f[4], f[5], f[6], f[7], b, a, l) :
        f \in {NoFilter}, b \in Windows, a \in Windows, l \in Limits}
      \cup {ListArgs(f[1], f[2], f[3], f[4], f[5], f[6], f[7], NoneNum, NoneNum, NoneNum) :
        f \in FilterArgs}

\* conv_bool
conv_bool(x) == IF ~x THEN "" ELSE "true"
\* x or ""
OrEmpty(x) == IF x = PyNone THEN "" ELSE x

\* the query parameters of a listing request (a None value is not sent)
ListParams(a) ==
    DictMerge(IF a.keywords = PyNone THEN EmptyDict ELSE ("keywords" :> a.keywords),
              ("new_activity_only" :> "false")
                @@ ("activity_type" :> OrEmpty(a.activity_type))
                @@ ("commute" :> conv_bool(a.commute))
                @@ ("private_activities" :> conv_bool(a.is_private))
                @@ ("trainer" :> conv_bool(a.indoor))
                @@ ("gear" :> OrEmpty(a.gear_id))
                @@ ("order" :> "start_date_local DESC"))

\* the argument checks at the head of get_activities: "none" or the error
ValidateListArgs(a) ==
    IF a.activity_type # PyNone /\ a.activity_type \notin ActivityTypes
    THEN "ValueError"
    ELSE IF a.activity_type \in DOMAIN ACTIVITY_WORKOUT_TYPES
    THEN IF a.workout_type \notin DOMAIN ACTIVITY_WORKOUT_TYPES[a.activity_type]
         THEN "ValueError" ELSE "none"
    ELSE IF a.workout_type # PyNone \/ a.gear_id # PyNone
    THEN "ValueError"
    ELSE "none"

\* "ACTIVITY_WORKOUT_TYPES[activity_type].get(workout_type)": the integer
\* code of a label, NoneNum where the table of the type has no such label
EncodeWorkoutType(type, label) ==
    IF label \in DOMAIN ACTIVITY_WORKOUT_TYPES[type]
    THEN Some(ACTIVITY_WORKOUT_TYPES[type][label]) ELSE NoneNum

\* variant: every record is decoded with the table of "Run"
DecodeAsRun(type, wt) ==
    IF \E k \in DOMAIN ACTIVITY_WORKOUT_TYPES["Run"] :
          Some(ACTIVITY_WORKOUT_TYPES["Run"][k]) = wt
    THEN CHOOSE k \in DOMAIN ACTIVITY_WORKOUT_TYPES["Run"] :
           Some(ACTIVITY_WORKOUT_TYPES["Run"][k]) = wt
    ELSE PyNone

\* the label the listing loop gives a record's workout type (PyNone: none);
\* wt is the record's integer, NoneNum for a JSON null
DecodeWorkoutType(type, wt) ==
    IF type \in DOMAIN ACTIVITY_WORKOUT_TYPES
    THEN IF \E k \in DOMAIN ACTIVITY_WORKOUT_TYPES[type] :
                Some(ACTIVITY_WORKOUT_TYPES[type][k]) = wt
         THEN CHOOSE k \in DOMAIN ACTIVITY_WORKOUT_TYPES[type] :
                Some(ACTIVITY_WORKOUT_TYPES[type][k]) = wt
         ELSE PyNone
    ELSE PyNone

\* ScrapedActivity(bind_client=self, **activity) of a raw record
ScrapedActivity(raw) ==
    [id |-> raw.id, type |-> raw.type, start_date |-> raw.start_date,
     workout_type |-> DecodeWorkoutType(raw.type, raw.workout_type)]

\* ------------------------------------------------ strings, dates, numbers
\* a string of the bike page is its sequence of characters
UpperCase ==
    <<"A", "B", "C", "D", "E", "F", "G", "H", "I", "J", "K", "L", "M",
      "N", "O", "P", "Q", "R", "S", "T", "U", "V", "W", "X", "Y", "Z">>
LowerCase ==
    <<"a", "b", "c", "d", "e", "f", "g", "h", "i", "j", "k", "l", "m",
      "n", "o", "p", "q", "r", "s", "t", "u", "v", "w", "x", "y", "z">>

\* str.lower()
lower(s) ==
    [i \in DOMAIN s |->
        IF \E u \in DOMAIN UpperCase : UpperCase[u] = s[i]
        THEN LowerCase[CHOOSE u \in DOMAIN UpperCase : UpperCase[u] = s[i]]
        ELSE s[i]]

RECURSIVE lstrip(_)
\* the string without its leading blanks
lstrip(s) == IF s # <<>> /\ Head(s) = " " THEN lstrip(Tail(s)) ELSE s

RECURSIVE rstrip(_, _)
\* str.rstrip(chars)
rstrip(s, chars) ==
    IF s # <<>> /\ s[Len(s)] \in chars THEN rstrip(SubSeq(s, 1, Len(s) - 1), chars)
    ELSE s

\* str.replace(c, "")
remove(s, c) == SelectSeq(s, LAMBDA x : x # c)

\* every character is a decimal digit, and there is one
IsDigits(s) == s # <<>> /\ \A i \in DOMAIN s : DigitVal(s[i]) # NotAnInt

\* datetime.date
Date(y, m, d) == [year |-> y, month |-> m, day |-> d]
\* date.min, date.max
DateMin == Date(1, 1, 1)
DateMax == Date(9999, 12, 31)
\* datetime.utcfromtimestamp(0).date()
EpochDate == Date(1970, 1, 1)

\* a <= b for dates
DateLE(a, b) ==
    \/ a.year < b.year
    \/ a.year = b.year /\ a.month < b.month
    \/ a.year = b.year /\ a.month = b.month /\ a.day <= b.day

\* the days of a month of the proleptic Gregorian calendar
DaysIn(y, m) ==
    IF m = 2
    THEN IF (y % 4 = 0 /\ y % 100 # 0) \/ y % 400 = 0 THEN 29 ELSE 28
    ELSE IF m \in {4, 6, 9, 11} THEN 30 ELSE 31

\* %b, lower-cased: strptime matches the month's abbreviation in any case
MonthAbbr ==
    <<<<"j", "a", "n">>, <<"f", "e", "b">>, <<"m", "a", "r">>, <<"a", "p", "r">>,
      <<"m", "a", "y">>, <<"j", "u", "n">>, <<"j", "u", "l">>, <<"a", "u", "g">>,
      <<"s", "e", "p">>, <<"o", "c", "t">>, <<"n", "o", "v">>, <<"d", "e", "c">>>>

\* the number of characters %d takes in front of the comma: 0 when none fit
DayWidth(s) ==
    IF Len(s) >= 3 /\ s[3] = "," /\ IsDigits(SubSeq(s, 1, 2))
         /\ py_int(SubSeq(s, 1, 2)) \in 1..31
    THEN 2
    ELSE IF Len(s) >= 2 /\ s[2] = "," /\ IsDigits(SubSeq(s, 1, 1)) /\ s[1] # "0"
    THEN 1
    ELSE 0

\* datetime.strptime(s, "%b %d, %Y").date(); NoneNum where it raises ValueError
strptime(s) ==
    IF Len(s) < 4 \/ s[4] # " "
         \/ ~(\E m \in DOMAIN MonthAbbr : MonthAbbr[m] = lower(SubSeq(s, 1, 3)))
    THEN NoneNum
    ELSE LET month == CHOOSE m \in DOMAIN MonthAbbr : MonthAbbr[m] = lower(SubSeq(s, 1, 3))
             rest == lstrip(SubSeq(s, 4, Len(s)))
             w == DayWidth(rest)
             tail == SubSeq(rest, w + 2, Len(rest))
         IN  IF w = 0 \/ tail = <<>> \/ tail[1] # " " \/ Len(lstrip(tail)) # 4
                  \/ ~IsDigits(lstrip(tail))
             THEN NoneNum
             ELSE LET day == py_int(SubSeq(rest, 1, w))
                      year == py_int(lstrip(tail))
                  IN  IF year < 1 \/ day > DaysIn(year, month) THEN NoneNum
                      ELSE Some(Date(year, month, day))

\* "since beginning"
SinceBeginning ==
    <<"s", "i", "n", "c", "e", " ", "b", "e", "g", "i", "n", "n", "i", "n", "g">>

\* variant: "since beginning" is compared without lower()
_parse_component_date_case_sensitive(date_str) ==
    IF date_str = <<>> THEN NoneNum
    ELSE IF date_str = SinceBeginning THEN Some(EpochDate)
    ELSE strptime(date_str)

\* model._parse_component_date: the date of a cell of the component table
_parse_component_date(date_str) ==
    IF date_str = <<>> THEN NoneNum
    ELSE IF lower(date_str) = SinceBeginning THEN Some(EpochDate)
    ELSE strptime(date_str)

\* 10 ^ k
RECURSIVE Pow10(_)
Pow10(k) == IF k = 0 THEN 1 ELSE 10 * Pow10(k - 1)

\* float(s) of a plain decimal: the number digits / 10^places; ok is FALSE
\* where float() raises ValueError
py_float(s) ==
    LET dots == {i \in DOMAIN s : s[i] = "."}
        digits == remove(s, ".")
    IN  IF Cardinality(dots) > 1 \/ ~IsDigits(digits)
        THEN [ok |-> FALSE, digits |-> 0, places |-> 0]
        ELSE [ok |-> TRUE, digits |-> py_int(digits),
              places |-> IF dots = {} THEN 0 ELSE Len(s) - (CHOOSE i \in dots : TRUE)]

\* the multipliers of the distance cell, in hundred-thousandths of a meter
MulScale == 100000
MileMul == 160934708
KmMul == 100000000

\* variant: every distance is taken as kilometers
mul_km_only(text) == KmMul

\* "mul = 1609.34708 if text[5].endswith("mi") else 1000"
mul(text) == IF EndsWith(text, <<"m", "i">>) THEN MileMul ELSE KmMul

\* "int(float(text[5].rstrip(" kmi").replace(",", "")) * mul)": the meters of
\* a distance cell, NoneNum where float() raises ValueError
distance(text) ==
    LET f == py_float(remove(rstrip(text, {" ", "k", "m", "i"}), ","))
    IN  IF ~f.ok THEN NoneNum
        ELSE Some((f.digits * (mul(text) \div MulScale)
                     + (f.digits * (mul(text) % MulScale)) \div MulScale)
                    \div Pow10(f.places))

\* a ScrapedBikeComponent, through ScrapedBikeComponent.from_dict
ScrapedBikeComponent(id, type, added, removed, meters) ==
    [id |-> id, type |-> type, added |-> _parse_component_date(added),
     removed |-> _parse_component_date(removed), distance |-> meters]

\* the argument of components_on_date: a date, or a datetime with its time
OnDate(kind, day, seconds) == [kind |-> kind, date |-> day, seconds |-> seconds]

\* "c.added or date.min", "c.removed or date.max"
OrDate(d, default) == IF d = NoneNum THEN default ELSE d[1]

\* variant: a component never removed counts as removed at date.min
components_on_date_removed_min(components, on_date) ==
    IF on_date = NoneNum THEN components
    ELSE SelectSeq(components,
                   LAMBDA c : /\ DateLE(OrDate(c.added, DateMin), on_date[1].date)
                              /\ DateLE(on_date[1].date, OrDate(c.removed, DateMin)))

\* _ScrapedBikeData.components_on_date, of the bike's components
components_on_date(components, on_date) ==
    IF on_date = NoneNum THEN components
    ELSE SelectSeq(components,
                   LAMBDA c : /\ DateLE(OrDate(c.added, DateMin), on_date[1].date)
                              /\ DateLE(on_date[1].date, OrDate(c.removed, DateMax)))

\* cells of the 'added' and 'removed' columns; in order: the empty cell,
\* "since beginning" in four spellings, four dates, five cells that are no date
DateCells ==
    <<<<>>,
      <<"s", "i", "n", "c", "e", " ", "b", "e", "g", "i", "n", "n", "i", "n", "g">>,
      <<"S", "i", "n", "c", "e", " ", "b", "e", "g", "i", "n", "n", "i", "n", "g">>,
      <<"S", "I", "N", "C", "E", " ", "B", "E", "G", "I", "N", "N", "I", "N", "G">>,
      <<"S", "i", "n", "c", "e", " ", "B", "e", "g", "i", "n", "n", "i", "n", "g">>,
      <<"J", "a", "n", " ", "0", "5", ",", " ", "2", "0", "2", "0">>,
      <<"D", "e", "c", " ", "3", "1", ",", " ", "1", "9", "9", "9">>,
      <<"F", "e", "b", " ", "2", "9", ",", " ", "2", "0", "2", "0">>,
      <<"M", "a", "r", " ", "7", ",", " ", "2", "0", "2", "1">>,
      <<"F", "e", "b", " ", "2", "9", ",", " ", "2", "0", "2", "1">>,
      <<"n", "/", "a">>,
      <<"J", "a", "n", " ", "5", " ", "2", "0", "2", "0">>,
      <<"2", "0", "2", "0", "-", "0", "1", "-", "0", "5">>,
      <<"J", "a", "n", " ", "0", "5", ",", " ", "2", "0">>>>

\* cells of the distance column; in order: 12.3 mi, 5 km, 1,234.5 km, 0.5 mi,
\* 100 mi, 7, the empty cell, km
DistanceCells ==
    <<<<"1", "2", ".", "3", " ", "m", "i">>,
      <<"5", " ", "k", "m">>,
      <<"1", ",", "2", "3", "4", ".", "5", " ", "k", "m">>,
      <<"0", ".", "5", " ", "m", "i">>,
      <<"1", "0", "0", " ", "m", "i">>,
      <<"7">>,
      <<>>,
      <<"k", "m">>>>

\* ------------------------------------------------------- the bike page
\* FrameType.from_str of the names a page shows; any other name is a KeyError
FrameTypeNames ==
    ("Mountain Bike" :> "MOUNTAIN_BIKE") @@ ("Cross Bike" :> "CROSS_BIKE")
      @@ ("Road Bike" :> "ROAD_BIKE") @@ ("TT Bike" :> "TIME_TRIAL_BIKE")

\* NON_NUMBERS.sub('', v)
NonNumbersSub(v) == SelectSeq(v, LAMBDA x : DigitVal(x) # NotAnInt \/ x = ".")

\* the keys the value cells of the gear table are zipped with
GearKeys == <<"frame_type", "brand_name", "model_name", "weight">>

Min(a, b) == IF a < b THEN a ELSE b

\* what a call made of the world: its error ("none": it returned), the
\* requests it sent and the value it returned
Result(error, message, code, reqs, value) ==
    [error |-> error, message |-> message, status_code |-> code, reqs |-> reqs,
     value |-> value]

\* the loop over the gear table: the keys it sets, or the error it ends with
GearData(values) ==
    LET n == Min(Len(values), Len(GearKeys))
    IN  IF n >= 1 /\ values[1] \notin DOMAIN FrameTypeNames
        THEN [error |-> "KeyError", dict |-> EmptyDict]
        ELSE IF n >= 4 /\ ~py_float(NonNumbersSub(values[4])).ok
        THEN [error |-> "ValueError", dict |-> EmptyDict]
        ELSE [error |-> "none",
              dict |-> [k \in {GearKeys[i] : i \in 1..n} |->
                          IF k = "frame_type" THEN FrameTypeNames[values[1]]
                          ELSE IF k = "brand_name" THEN values[2]
                          ELSE IF k = "model_name" THEN values[3]
                          ELSE py_float(NonNumbersSub(values[4]))]]

\* a row of the component table: the number of its cells, the text of cells
\* 0, 3, 4 and 5 and the last segment of the delete link of cell 6
BikeRow(ncells, type, added, removed, dist, id) ==
    [ncells |-> ncells, type |-> type, added |-> added, removed |-> removed,
     distance |-> dist, id |-> id]

RECURSIVE ParseRows(_)
\* the loop over the rows of the component table
ParseRows(rows) ==
    IF rows = <<>> THEN [error |-> "none", components |-> <<>>]
    ELSE IF Head(rows).ncells < 7 THEN ParseRows(Tail(rows))
    ELSE IF distance(Head(rows).distance) = NoneNum
    THEN [error |-> "ValueError", components |-> <<>>]
    ELSE IF ParseRows(Tail(rows)).error # "none" THEN ParseRows(Tail(rows))
    ELSE [error |-> "none",
          components |->
            <<ScrapedBikeComponent(Head(rows).id, Head(rows).type, Head(rows).added,
                                   Head(rows).removed,
                                   distance(Head(rows).distance)[1])>>
              \o ParseRows(Tail(rows)).components]

\* rows a page may show: a chain, the "No active components" message, a tire
\* on the bike since the beginning, pedals with an empty distance cell
BikeRows ==
    {BikeRow(7, "Chain", DateCells[6], DateCells[1], DistanceCells[1], <<"1", "1">>),
     BikeRow(1, "No active components", <<>>, <<>>, <<>>, <<>>),
     BikeRow(7, "Tire", DateCells[5], DateCells[9], DistanceCells[2], <<"1", "2">>),
     BikeRow(7, "Pedals", DateCells[1], DateCells[1], DistanceCells[7], <<"1", "3">>)}

\* the value cells of a gear table
FullGear == <<"TT Bike", "Trek", "Emonda", <<"9", ".", "5", " ", "k", "g">>>>
GearTables ==
    {<<>>, <<"Road Bike", "Trek">>, FullGear, <<"Tandem">>,
     <<"Road Bike", "Trek", "Emonda", <<"k", "g">>>>}

\* the response to "bikes/<id>": its status, whether it has the gear-details
\* div, the value cells of the gear table, whether a table with a header row
\* is there, and that table's rows
BikePage(code, gear_div, gear, table, rows) ==
    [status_code |-> code, gear_div |-> gear_div, gear |-> gear, table |-> table,
     rows |-> rows]
BikePages ==
    {BikePage(404, FALSE, <<>>, FALSE, <<>>), BikePage(200, FALSE, <<>>, TRUE, <<>>),
     BikePage(200, TRUE, FullGear, FALSE, <<>>)}
      \cup {BikePage(200, TRUE, g, TRUE, <<>>) : g \in GearTables}
      \cup {BikePage(200, TRUE, FullGear, TRUE, rows) : rows \in SeqsUpTo(BikeRows, MaxRows)}

\* str.startswith(c)
startswith(s, c) == s # <<>> /\ s[1] = c
\* s[1:]
Rest(s) == IF s = <<>> THEN <<>> ELSE Tail(s)

\* variant: every id passes for the id of a bike
AnyBikeId(bike_id) == TRUE

\* "bike_id.startswith('b')"
ValidBikeId(bike_id) == startswith(bike_id, "b")

\* ScrapingClient.get_bike_details
get_bike_details(bike_id, page) ==
    LET req == <<Request("GET", "bikes", Rest(bike_id), EmptyDict, 0, EmptyDict)>>
    IN  IF ~ValidBikeId(bike_id)
        THEN Result("ValueError", "Invalid bike id (must start with 'b')", 0, <<>>,
                    EmptyDict)
        ELSE IF page.status_code # 200
        THEN Result("Fault", "Failed to load bike details page", page.status_code, req,
                    EmptyDict)
        ELSE IF ~page.gear_div
        THEN Result("AttributeError", "'NoneType' object has no attribute 'find'", 0,
                    req, EmptyDict)
        ELSE IF GearData(page.gear).error # "none"
        THEN Result(GearData(page.gear).error, "", 0, req, EmptyDict)
        ELSE IF ~page.table
        THEN Result("ScrapingError",
                    "Bike component table not found in the HTML - layout update?", 0,
                    req, EmptyDict)
        ELSE IF ParseRows(page.rows).error # "none"
        THEN Result(ParseRows(page.rows).error, "", 0, req, EmptyDict)
        ELSE Result("none", "", 0, req,
                    DictMerge(GearData(page.gear).dict,
                              "components" :> ParseRows(page.rows).components))

\* the ids get_bike_details and get_gear are called with
GearIds == {<<"b", "1">>, <<"g", "1">>, <<"1">>, <<>>}

\* ------------------------------------------------------ the activity page
\* the response to "activities/<id>": whether it is ok, and the keys the
\* scrape finds on it
ActivityPage(ok, keys) == [ok |-> ok, keys |-> keys]
ActivityPages ==
    {ActivityPage(FALSE, {}), ActivityPage(TRUE, {}),
     ActivityPage(TRUE, {"name", "manual", "type"}),
     ActivityPage(TRUE, {"name", "description", "device_name", "manual", "type",
                         "photos"})}
\* the values the scrape gives those keys
ActivityValues ==
    [name |-> "Morning Ride", description |-> "Easy", device_name |-> "Garmin",
     manual |-> FALSE, type |-> "Ride", photos |-> <<>>]

\* ScrapingClient.get_extra_activity_details
get_extra_activity_details(activity_id, page) ==
    LET req == <<Request("GET", "activities", activity_id, EmptyDict, 0, EmptyDict)>>
    IN  IF ~page.ok
        THEN Result("Fault", "Failed to load activity page to get details", 0, req,
                    EmptyDict)
        ELSE Result("none", "", 0, req, [k \in page.keys |-> ActivityValues[k]])

\* ------------------------------------------------------ the gear listings
\* the response to a gear listing: whether it is ok, whether its body is a
\* JSON list, and the ids of the records of the list
GearListing(ok, json, ids) == [ok |-> ok, json |-> json, ids |-> ids]
BikeListings ==
    {GearListing(FALSE, FALSE, <<>>), GearListing(TRUE, FALSE, <<>>)}
      \cup {GearListing(TRUE, TRUE, ids) : ids \in SeqsUpTo({1, 2}, MaxGear)}
ShoeListings ==
    {GearListing(FALSE, FALSE, <<>>), GearListing(TRUE, FALSE, <<>>)}
      \cup {GearListing(TRUE, TRUE, ids) :
              ids \in SeqsUpTo({<<"g", "1">>, <<"g", "2">>}, MaxGear)}

\* ScrapedBike(id="b{}".format(b.pop("id")), **b)
ScrapedBike(raw_id) == [id |-> <<"b">> \o py_str(raw_id)]
\* ScrapedShoe(**s)
ScrapedShoe(raw_id) == [id |-> raw_id]

\* list(get_all_bikes(arg)) for the athlete self_id is logged in as: arg is
\* NoneNum where the caller gives no athlete id; athlete_ok is whether the
\* page of another athlete loads
get_all_bikes(self_id, arg, listing, athlete_ok) ==
    IF arg = NoneNum
    THEN Result("TypeError", "int() argument must not be 'NoneType'", 0, <<>>, <<>>)
    ELSE IF arg[1] # self_id
    THEN IF athlete_ok
         THEN Result("none", "", 0,
                     <<Request("GET", "athletes", arg[1], EmptyDict, 0, EmptyDict)>>,
                     <<>>)
         ELSE Result("Fault", "Failed to get athlete", 0,
                     <<Request("GET", "athletes", arg[1], EmptyDict, 0, EmptyDict)>>,
                     <<>>)
    ELSE LET req == <<Request("GET", "athletes/gear/bikes", self_id, EmptyDict, 0,
                              EmptyDict)>>
         IN  IF ~listing.ok
             THEN Result("Fault", "Failed to get list of bikes", 0, req, <<>>)
             ELSE IF ~listing.json
             THEN Result("ScrapingError", "Failed to parse bike data", 0, req, <<>>)
             ELSE Result("none", "", 0, req,
                         [i \in DOMAIN listing.ids |-> ScrapedBike(listing.ids[i])])

\* list(get_all_shoes(arg))
get_all_shoes(self_id, arg, listing, athlete_ok) ==
    IF arg = NoneNum
    THEN Result("TypeError", "int() argument must not be 'NoneType'", 0, <<>>, <<>>)
    ELSE IF arg[1] # self_id
    THEN IF athlete_ok
         THEN Result("none", "", 0,
                     <<Request("GET", "athletes", arg[1], EmptyDict, 0, EmptyDict)>>,
                     <<>>)
         ELSE Result("Fault", "Failed to get athlete", 0,
                     <<Request("GET", "athletes", arg[1], EmptyDict, 0, EmptyDict)>>,
                     <<>>)
    ELSE LET req == <<Request("GET", "athletes/gear/shoes", self_id, EmptyDict, 0,
                              EmptyDict)>>
         IN  IF ~listing.ok
             THEN Result("Fault", "Failed to get list of shoes", 0, req, <<>>)
             ELSE IF ~listing.json
             THEN Result("ScrapingError", "Failed to parse shoe data", 0, req, <<>>)
             ELSE Result("none", "", 0, req,
                         [i \in DOMAIN listing.ids |-> ScrapedShoe(listing.ids[i])])

\* "next(x for x in <listing> if x.id == gear_id)", StopIteration turned into
\* KeyError; any other error of the listing passes through
FirstWithId(listing, gear_id) ==
    IF listing.error # "none" THEN listing
    ELSE IF \E i \in DOMAIN listing.value : listing.value[i].id = gear_id
    THEN Result("none", "", 0, listing.reqs,
                <<listing.value[CHOOSE i \in DOMAIN listing.value :
                                  /\ listing.value[i].id = gear_id
                                  /\ \A j \in 1..(i - 1) : listing.value[j].id # gear_id]>>)
    ELSE Result("KeyError", "No gear with id found", 0, listing.reqs, <<>>)

\* ScrapingClient.get_gear: the listings are called without an athlete id
get_gear(self_id, gear_id, bikes, shoes) ==
    IF startswith(gear_id, "b")
    THEN FirstWithId(get_all_bikes(self_id, NoneNum, bikes, TRUE), gear_id)
    ELSE FirstWithId(get_all_shoes(self_id, NoneNum, shoes, TRUE), gear_id)

\* ------------------------------------------------------- lazy attributes
\* LazyLoaded(attr, fcn=..., key=..., property=...)
Descriptor(fcn, key, property) == [fcn |-> fcn, key |-> key, property |-> property]
ByKey(key) == Descriptor(FALSE, key, FALSE)

\* the LazyLoaded attributes of the classes; "Entity" stands for a
\* LoadableEntity with one attribute resolved by a function and not marked as
\* a property, and one resolved by key through LoadableEntity.load_attribute
LazyAttrs ==
    [ScrapedBike |->
       [components |-> ByKey("components"), weight |-> ByKey("weight"),
        frame_type |-> ByKey("frame_type"), brand_name |-> ByKey("brand_name"),
        model_name |-> ByKey("model_name"), description |-> ByKey("description")],
     ScrapedActivity |->
       [manual |-> ByKey("manual"), photos |-> ByKey("photos"),
        device_name |-> ByKey("device_name")],
     ScrapedAthlete |-> [name |-> Descriptor(TRUE, PyNone, TRUE)],
     Entity |-> [attr |-> Descriptor(TRUE, PyNone, FALSE), extra |-> ByKey("extra")]]

\* an object: its class, its id, the values its attributes hold (NoneNum:
\* None) and its _lazyload_cache
Entity(kind, id, data) == [kind |-> kind, id |-> id, data |-> data, cache |-> EmptyDict]
NoObj == Entity("none", 0, EmptyDict)

\* the objects the model starts from: a bike with nothing set and one built
\* from a listing record that had a brand and a description, an activity, an
\* athlete with or without first and last name, and an Entity
Entities ==
    {Entity("ScrapedBike", <<"b", "1">>,
            [a \in DOMAIN LazyAttrs["ScrapedBike"] |-> NoneNum]),
     Entity("ScrapedBike", <<"b", "1">>,
            [a \in DOMAIN LazyAttrs["ScrapedBike"] |->
               IF a = "brand_name" THEN Some("Trek")
               ELSE IF a = "description" THEN Some("My bike") ELSE NoneNum]),
     Entity("ScrapedActivity", 1,
            [a \in DOMAIN LazyAttrs["ScrapedActivity"] |-> NoneNum]),
     Entity("Entity", 0, [attr |-> NoneNum, extra |-> NoneNum])}
      \cup {Entity("ScrapedAthlete", 0,
                   [firstname |-> f, lastname |-> l, name |-> NoneNum]) :
              f \in {NoneNum, Some("Ann")}, l \in {NoneNum, Some("Lee")}}

\* the values an attribute's function may return for the object
Resolve(o, attr) ==
    IF o.kind = "ScrapedAthlete"
    THEN \* "{} {}".format(x.firstname or "", x.lastname or "").strip(), as words
         {Some(o.data["firstname"] \o o.data["lastname"])}
    ELSE {NoneNum, Some("v1"), Some("v2")}

\* the pages a lazy load of a bike is answered with: an error, a page with
\* every value and one component, a page with two values and no component
LoadPages ==
    {BikePage(404, FALSE, <<>>, FALSE, <<>>),
     BikePage(200, TRUE, FullGear, TRUE,
              <<BikeRow(7, "Chain", DateCells[6], DateCells[1], DistanceCells[1],
                        <<"1", "1">>)>>),
     BikePage(200, TRUE, <<"Road Bike", "Trek">>, TRUE, <<>>)}

\* the results obj.load_attribute(key) may have
Loads(o, key) ==
    IF o.kind = "ScrapedBike" THEN {get_bike_details(o.id, p) : p \in LoadPages}
    ELSE IF o.kind = "ScrapedActivity" /\ key \in {"manual", "photos", "device_name"}
    THEN {get_extra_activity_details(o.id, p) : p \in ActivityPages}
    ELSE {Result("none", "", 0, <<>>, EmptyDict)}

\* variant: the value held is never used
NeverUseStored(d, stored) == FALSE

\* "not (self._property or self.data.get(obj) is None)": the value held is used
UseStored(d, stored) == ~(d.property \/ stored = NoneNum)

\* variant: the value the function returned is never kept
KeepsNothing(d, value) == FALSE

\* "value is not None and not self._property": the value is set on the object
Keeps(d, value) == value # NoneNum /\ ~d.property

\* the values the model assigns to an attribute
SetValues(kind, attr) ==
    IF kind = "Entity" THEN {NoneNum, Some("v3")}
    ELSE IF kind = "ScrapedAthlete" THEN {Some(<<"Zed">>)}
    ELSE IF attr = "description" THEN {Some("Commuter")}
    ELSE {}

\* ------------------------------------------------------ activity export
\* the values of DataFormat's members; a member stands for its value
DataFormatValues == {"original", "gpx", "tcx"}
\* DataFormat(x): the member with value x, ValueError when there is none
DataFormat(x) ==
    IF x \in DataFormatValues THEN [error |-> "none", value |-> x]
    ELSE [error |-> "ValueError", value |-> PyNone]
\* what a caller passes as fmt or json_fmt: a format, None, or another string
FormatArgs == DataFormatValues \cup {PyNone, "fit"}

\* "activities/{}/export_{}".format(activity_id, fmt), without the id
ExportService(fmt) ==
    CASE fmt = "original" -> "activities/export_original"
      [] fmt = "gpx" -> "activities/export_gpx"
      [] fmt = "tcx" -> "activities/export_tcx"

ApplicationJson ==
    <<"a", "p", "p", "l", "i", "c", "a", "t", "i", "o", "n", "/", "j", "s", "o", "n">>

\* the response to an export request: its status, its Content-Type header
\* (NoneNum when the header is missing), the filename parameter of its
\* content-disposition header (empty when there is none) and its body
ExportResponse(code, content_type, filename, body) ==
    [status_code |-> code, content_type |-> content_type, filename |-> filename,
     body |-> body]
ExportResponses ==
    {ExportResponse(302, Some(<<"t", "e", "x", "t", "/", "h", "t", "m", "l">>), <<>>,
                    "redirect"),
     ExportResponse(200, Some(ApplicationJson), <<>>, "json"),
     ExportResponse(200, Some(<<"A", "p", "p", "l", "i", "c", "a", "t", "i", "o", "n",
                                "/", "J", "S", "O", "N">>),
                    <<"1", ".", "j", "s", "o", "n">>, "json"),
     ExportResponse(200, Some(<<"t", "e", "x", "t", "/", "x", "m", "l">>),
                    <<"r", "i", "d", "e">>, "xml"),
     ExportResponse(200, NoneNum, <<"r", "i", "d", "e", ".", "f", "i", "t">>, "fit")}

\* ExportFile(filename, content)
ExportFile(filename, content) == [filename |-> filename, content |-> content]
NoFile == ExportFile(<<>>, "")

\* ScrapingClient._make_export_file(resp, id_): 'fmt' is not a name of the
\* static method nor of the module, so reading it raises NameError
_make_export_file(resp, id_) ==
    LET filename == IF resp.filename = <<>> THEN py_str(id_) ELSE resp.filename
    IN  IF ~(\E i \in DOMAIN filename : filename[i] = ".")
        THEN [error |-> "NameError", value |-> NoFile]
        ELSE [error |-> "none", value |-> ExportFile(filename, resp.body)]

\* variant: the fallback format is also asked for after a format other than
\* the original one
RetryAnyFormat(fmt, json_fmt, resp) ==
    /\ json_fmt # fmt
    /\ resp.content_type # NoneNum
    /\ lower(resp.content_type[1]) = ApplicationJson

\* "fmt == DataFormat.ORIGINAL and json_fmt != fmt and
\*  resp.headers['Content-Type'].lower() == 'application/json'"
Retry(fmt, json_fmt, resp) ==
    /\ fmt = "original"
    /\ json_fmt # fmt
    /\ lower(resp.content_type[1]) = ApplicationJson

RECURSIVE get_activity_data(_, _, _, _)
\* ScrapingClient.get_activity_data(activity_id, fmt, json_fmt); responses
\* are the answers to the requests it sends, in order
get_activity_data(activity_id, fmt, json_fmt, responses) ==
    IF DataFormat(fmt).error # "none" \/ DataFormat(json_fmt).error # "none"
    THEN Result("ValueError", "is not a valid DataFormat", 0, <<>>, NoFile)
    ELSE LET req == <<Request("GET", ExportService(fmt), activity_id, EmptyDict, 0,
                              EmptyDict)>>
             resp == Head(responses)
         IN  IF resp.status_code # 200
             THEN Result("Fault", "Status code received when trying to download an activity",
                         resp.status_code, req, NoFile)
             ELSE IF fmt = "original" /\ json_fmt # fmt /\ resp.content_type = NoneNum
             THEN Result("KeyError", "content-type", 0, req, NoFile)
             ELSE IF Retry(fmt, json_fmt, resp)
             THEN LET r == get_activity_data(activity_id, json_fmt, "original",
                                             Tail(responses))
                  IN  [r EXCEPT !.reqs = req \o r.reqs]
             ELSE Result(_make_export_file(resp, activity_id).error, "", 0, req,
                         _make_export_file(resp, activity_id).value)

\* ------------------------------------------------------------ challenges
\* the response to "challenges/<id>": whether it is ok; the state of its
\* data-react-class="Show" div: "absent", "unparsable" (its props are not
\* JSON), "no overview" (JSON without an Overview section), "no header" (JSON
\* without the header), "complete"; the state of its inline script: "absent"
\* (no script names Strava.Models.Challenge), "no match" (CHALLENGE_REGEX
\* finds nothing), "unparsable", "complete"; whether it has the div "desc"
ChallengePage(ok, react, script, desc) ==
    [ok |-> ok, react |-> react, script |-> script, desc |-> desc]
ChallengePages ==
    {ChallengePage(FALSE, "absent", "absent", FALSE)}
      \cup {ChallengePage(TRUE, r, s, d) :
              r \in {"absent", "unparsable", "no overview", "no header", "complete"},
              s \in {"absent", "no match", "unparsable", "complete"},
              d \in BOOLEAN}
ChallengeIds == {1, 2}

\* ScrapedChallenge(**data): its id, the layout its name was taken from and
\* the text of its description ("" when there is none)
ScrapedChallenge(id, name, description) ==
    [id |-> id, name |-> name, description |-> description]
NoChallenge == ScrapedChallenge(0, "", "")

\* how the branch for the react layout ends
ReactLayout(challenge_id, page) ==
    IF page.react = "unparsable"
    THEN Result("ScrapingError", "Failed to parse extracted challenge data", 0, <<>>,
                NoChallenge)
    ELSE IF page.react = "no overview"
    THEN Result("StopIteration", "", 0, <<>>, NoChallenge)
    ELSE IF page.react = "no header"
    THEN Result("KeyError", "header", 0, <<>>, NoChallenge)
    ELSE Result("none", "", 0, <<>>,
                ScrapedChallenge(challenge_id, "react name", "react overview"))

\* how the branch for the older layout ends
InlineLayout(challenge_id, page) ==
    IF page.script = "absent"
    THEN Result("ScrapingError", "Failed to scrape challenge data", 0, <<>>, NoChallenge)
    ELSE IF page.script = "no match"
    THEN Result("ScrapingError", "Failed to extract challenge data from page", 0, <<>>,
                NoChallenge)
    ELSE IF page.script = "unparsable"
    THEN Result("ScrapingError", "Failed to parse extracted challenge data", 0, <<>>,
                NoChallenge)
    ELSE Result("none", "", 0, <<>>,
                ScrapedChallenge(challenge_id, "inline name",
                                 IF page.desc THEN "desc text" ELSE ""))

\* "if react_data:" the page has the react div
HasReact(page) == page.react # "absent"

\* ScrapingClient.get_challenge(challenge_id)
get_challenge(challenge_id, page) ==
    LET req == <<Request("GET", "challenges", challenge_id, EmptyDict, 0, EmptyDict)>>
        r == IF HasReact(page) THEN ReactLayout(challenge_id, page)
             ELSE InlineLayout(challenge_id, page)
    IN  IF ~page.ok
        THEN Result("Fault", "Failed to get challenge", 0, req, NoChallenge)
        ELSE [r EXCEPT !.reqs = req]

\* ------------------------------------------------------------ the athlete
\* a row of a gear table of the athlete page's sidebar: the id its link ends
\* with (NoneNum: the name is no link) and the text of its distance cell
SidebarRow(link, dist) == [link |-> link, dist |-> dist]
SidebarRows ==
    {SidebarRow(Some(<<"7">>), <<"5", " ", "k", "m">>),
     SidebarRow(NoneNum, <<"5", " ", "k", "m">>),
     SidebarRow(NoneNum, <<"k", "m">>)}

\* the response to "athletes/<id>": whether it is ok, whether it carries the
\* Strava.Models.CurrentAthlete script with JSON that parses, and the rows
\* of the sidebar's bikes and shoes tables
AthletePage(ok, detailed, bikes, shoes) ==
    [ok |-> ok, detailed |-> detailed, bikes |-> bikes, shoes |-> shoes]
AthletePages ==
    {AthletePage(FALSE, FALSE, <<>>, <<>>)}
      \cup {AthletePage(TRUE, d, b, sh) :
              d \in BOOLEAN, b \in SeqsUpTo(SidebarRows, MaxGear),
              sh \in SeqsUpTo({SidebarRow(NoneNum, <<"5", " ", "k", "m">>)}, MaxGear)}

\* "cls(id=gear_id, name=.., distance=int(float(NON_NUMBERS.sub('', dist)) * 1000))":
\* the gear made from a sidebar row; id NoneNum is None
StubGear(type_, row) ==
    [id |-> IF row.link # NoneNum /\ type_ = "bikes" THEN <<"b">> \o row.link[1]
            ELSE NoneNum,
     distance |-> (py_float(NonNumbersSub(row.dist)).digits * 1000)
                     \div Pow10(py_float(NonNumbersSub(row.dist)).places)]
\* the gear of a sidebar table, NoneNum where a distance makes float() raise
StubList(type_, rows) ==
    IF \E i \in DOMAIN rows : ~py_float(NonNumbersSub(rows[i].dist)).ok THEN NoneNum
    ELSE Some([i \in DOMAIN rows |-> StubGear(type_, rows[i])])

\* an athlete object: where it comes from, its id (NoneNum: None), the values
\* its bikes and shoes attributes hold (NoneNum: None, else Some(list)) and
\* its _lazyload_cache, which maps "bikes" and "shoes" to the generator
\* load_attribute returned: TRUE once it has been run to its end
Athlete(via, id, bikes, shoes) ==
    [kind |-> "ScrapedAthlete", via |-> via, id |-> id,
     data |-> [bikes |-> bikes, shoes |-> shoes], cache |-> EmptyDict]

\* variant: bikes and shoes are never set
StubsNever(athlete_id, self_id) == FALSE

\* "if athlete_id != self.athlete_id:" bikes and shoes are set from the sidebar
StubsSet(athlete_id, self_id) == athlete_id # self_id

\* ScrapingClient.get_athlete(athlete_id) on a client logged in as self_id;
\* arg is NoneNum where the caller gives no athlete id
get_athlete(self_id, arg, page) ==
    LET athlete_id == IF arg = NoneNum THEN self_id ELSE arg[1]
        req == <<Request("GET", "athletes", athlete_id, EmptyDict, 0, EmptyDict)>>
    IN  IF ~page.ok
        THEN Result("Fault", "Failed to get athlete", 0, req,
                    Athlete("none", NoneNum, NoneNum, NoneNum))
        ELSE IF ~StubsSet(athlete_id, self_id)
        THEN Result("none", "", 0, req,
                    Athlete("get_athlete", Some(athlete_id), NoneNum, NoneNum))
        ELSE IF StubList("bikes", page.bikes) = NoneNum
                  \/ StubList("shoes", page.shoes) = NoneNum
        THEN Result("ValueError", "could not convert string to float", 0, req,
                    Athlete("none", NoneNum, NoneNum, NoneNum))
        ELSE Result("none", "", 0, req,
                    Athlete("get_athlete", Some(athlete_id),
                            Some(StubList("bikes", page.bikes)[1]),
                            Some(StubList("shoes", page.shoes)[1])))

\* ------------------------------------------------------------- the state
VARIABLES
    client,    \* "none", then "scraping" | "web" (constructed) or "failed"
    kwargs,    \* the arguments the constructor was called with
    cookies,   \* the session's cookie jar
    _csrf,     \* ScrapingClient._csrf
    log,       \* every request sent, oldest first
    resp,      \* the response to the latest POST
    outcome,   \* how the latest operation ended
    env,       \* what the world last answered: the clock, the REST API, the about page
    gen,       \* the frame of the get_activities generator
    yielded,   \* the activities the generator has yielded, in order
    received,  \* the record lists of the pages it has received, in order; the
               \* responses the latest export has received, in order
    calc,      \* a function under study: its name, its argument and its result
    obj,       \* an object with lazy attributes
    hist,      \* the accesses of obj's lazy attributes, oldest first
    ret        \* the latest call for gear or attribute access: its argument and value

sessionvars == <<client, kwargs, cookies, _csrf, resp, env>>
listvars == <<gen, yielded, received>>
extravars == <<calc, obj, hist, ret>>
vars ==
    <<client, kwargs, cookies, _csrf, log, resp, outcome, env, gen, yielded, received,
      calc, obj, hist, ret>>

NoCookies == [strava_remember_id |-> NoSetCookie, strava_remember_token |-> NoJwt]
NoEnv == [now |-> 0, api_id |-> ApiFault, about |-> EmptyDict]
NoKwargs == [jwt |-> NoJwt, email |-> "", password |-> "", csrf |-> EmptyDict]
Outcome(op, error, message, code) ==
    [op |-> op, error |-> error, message |-> message, status_code |-> code]

\* The generator's frame.  pc is "none" (no generator), "created" (called,
\* body not started), "request" (at the head of the while loop), "iter" (in
\* the for loop, before record i of data), "yielded" (suspended at the
\* yield), "returned" or "raised".
Frame(pc, args, before, after, page, num_yielded, data, i) ==
    [pc |-> pc, args |-> args, before |-> before, after |-> after, page |-> page,
     num_yielded |-> num_yielded, data |-> data, i |-> i]
NoArgs ==
    ListArgs(PyNone, PyNone, PyNone, FALSE, FALSE, FALSE, PyNone, NoneNum, NoneNum, NoneNum)
NoGen == Frame("none", NoArgs, 0, 0, 0, 0, <<>>, 0)

\* calc before a function is applied, and after
Calc(fn, arg) == [fn |-> fn, arg |-> arg, done |-> FALSE, out |-> <<>>]
NoCalc == Calc("none", <<>>)
\* the latest call: its name, its argument and the value it returned
Ret(op, arg, value) == [op |-> op, arg |-> arg, value |-> value]
NoRet == Ret("none", <<>>, <<>>)
ExtraInit == calc = NoCalc /\ obj = NoObj /\ hist = <<>> /\ ret = NoRet

\* ScrapingClient.jwt
jwt == cookies.strava_remember_token
\* ScrapingClient.athlete_id; NotAnInt when int() raises
athlete_id == py_int(cookies.strava_remember_id)

\* ---------------------------------------------------------------- CSRF
\* variant: a missing csrf-param tag is replaced by the usual parameter name
_get_csrf_token_default_param(about) ==
    IF "csrf-token" \in DOMAIN about /\ "content" \in DOMAIN about["csrf-token"]
    THEN [error |-> "none",
          value |-> (IF "csrf-param" \in DOMAIN about
                        /\ "content" \in DOMAIN about["csrf-param"]
                     THEN about["csrf-param"]["content"]
                     ELSE "authenticity_token") :> about["csrf-token"]["content"]]
    ELSE [error |-> "Fault", value |-> EmptyDict]

\* ScrapingClient._get_csrf_token on the about page the server serves
_get_csrf_token(about) ==
    IF /\ "csrf-param" \in DOMAIN about
       /\ "content" \in DOMAIN about["csrf-param"]
       /\ "csrf-token" \in DOMAIN about
       /\ "content" \in DOMAIN about["csrf-token"]
    THEN [error |-> "none",
          value |-> (about["csrf-param"]["content"] :> about["csrf-token"]["content"])]
    ELSE [error |-> "Fault", value |-> EmptyDict]

\* variant: the property scrapes the about page on every access
csrf_always_fetch(held, about) ==
    [error |-> _get_csrf_token(about).error,
     _csrf |-> _get_csrf_token(about).value,
     reqs  |-> <<Request("GET", "about", 0, EmptyDict, 0, EmptyDict)>>]

\* ScrapingClient.csrf: the held pair, else one scraped from the about page.
\* reqs are the requests the access sends.
csrf(held, about) ==
    IF held # EmptyDict
    THEN [error |-> "none", _csrf |-> held, reqs |-> <<>>]
    ELSE [error |-> _get_csrf_token(about).error,
          _csrf |-> _get_csrf_token(about).value,
          reqs  |-> <<Request("GET", "about", 0, EmptyDict, 0, EmptyDict)>>]

\* --------------------------------------------------------------- login
\* variant: the expiry is never looked at
NeverExpired(data, now) == FALSE

\* "data['exp'] < time.time()"
Expired(data, now) == data["exp"].n < now

\* variant: the identity cookie is taken from the wrong payload field
web_id_from_exp(data) == JsonToStr(data["exp"])

\* "web_id = str(data['sub'])"
web_id(data) == JsonToStr(data["sub"])

\* ScrapingClient._login_with_jwt
_login_with_jwt(token, now) ==
    IF token.nseg < 2 \/ ~token.payload.decodable
    THEN [error |-> "ValueError", message |-> "Failed to parse JWT payload",
          cookies |-> NoCookies]
    ELSE LET data == token.payload.data IN
         IF "exp" \notin DOMAIN data
         THEN [error |-> "ValueError",
               message |-> "Failed to extract required data from the JWT",
               cookies |-> NoCookies]
         ELSE IF Expired(data, now)
         THEN [error |-> "ValueError", message |-> "JWT has expired",
               cookies |-> NoCookies]
         ELSE IF "sub" \notin DOMAIN data
         THEN [error |-> "ValueError",
               message |-> "Failed to extract required data from the JWT",
               cookies |-> NoCookies]
         ELSE [error |-> "none", message |-> "",
               cookies |-> [strava_remember_id |-> web_id(data),
                            strava_remember_token |-> token]]

\* the cookie jar after a response: the session keeps the cookies it sets
StoreCookies(jar, response) ==
    IF response.set_id = NoSetCookie THEN jar
    ELSE [strava_remember_id |-> response.set_id, strava_remember_token |-> ServerJwt]

\* variant: any redirect counts as a login
LoginFailedUnlessRedirect(response) == ~response.is_redirect

\* the test _login_with_password makes on the response to its POST
LoginFailed(response) ==
    ~response.is_redirect \/ EndsWith(response.next_url, <<"login">>)

\* the form _login_with_password posts
LoginForm(email, password, pair) ==
    DictMerge(("email" :> email) @@ ("password" :> password) @@ ("remember_me" :> "on"),
              pair)

\* ScrapingClient._login_with_password
_login_with_password(email, password, held, about, response) ==
    LET c == csrf(held, about) IN
    IF c.error # "none"
    THEN [error |-> c.error, message |-> "Couldn't find CSRF token",
          _csrf |-> c._csrf, reqs |-> c.reqs, resp |-> NoResponse,
          cookies |-> NoCookies]
    ELSE [error |-> IF LoginFailed(response) THEN "LoginFailed" ELSE "none",
          message |-> IF LoginFailed(response)
                      THEN "Couldn't log in to website, check creds" ELSE "",
          _csrf |-> c._csrf,
          reqs |-> c.reqs \o <<Request("POST", "session", 0,
                      LoginForm(email, password, c._csrf), 0, EmptyDict)>>,
          resp |-> response,
          cookies |-> StoreCookies(NoCookies, response)]

\* variant: an email and a password are tried before the token
ScrapingClient__init__password_first(kw, now, about, response) ==
    IF kw.email # "" /\ kw.password # ""
    THEN _login_with_password(kw.email, kw.password, kw.csrf, about, response)
    ELSE IF kw.jwt # NoJwt
    THEN LET r == _login_with_jwt(kw.jwt, now) IN
         [error |-> r.error, message |-> r.message, _csrf |-> kw.csrf,
          reqs |-> <<>>, resp |-> NoResponse, cookies |-> r.cookies]
    ELSE [error |-> "ValueError",
          message |-> "'jwt' or both of 'email' and 'password' are required",
          _csrf |-> kw.csrf, reqs |-> <<>>, resp |-> NoResponse,
          cookies |-> NoCookies]

\* ScrapingClient.__init__
ScrapingClient__init__(kw, now, about, response) ==
    IF kw.jwt # NoJwt
    THEN LET r == _login_with_jwt(kw.jwt, now) IN
         [error |-> r.error, message |-> r.message, _csrf |-> kw.csrf,
          reqs |-> <<>>, resp |-> NoResponse, cookies |-> r.cookies]
    ELSE IF kw.email # "" /\ kw.password # ""
    THEN _login_with_password(kw.email, kw.password, kw.csrf, about, response)
    ELSE [error |-> "ValueError",
          message |-> "'jwt' or both of 'email' and 'password' are required",
          _csrf |-> kw.csrf, reqs |-> <<>>, resp |-> NoResponse,
          cookies |-> NoCookies]

\* variant: the account cross-check is left out
WebClient__init__unchecked(kw, now, about, response, api_id) ==
    ScrapingClient__init__(kw, now, about, response)

\* WebClient.__init__: the scraper, then the account cross-check against the
\* id the REST API reports
WebClient__init__(kw, now, about, response, api_id) ==
    LET r == ScrapingClient__init__(kw, now, about, response) IN
    IF r.error # "none" THEN r
    ELSE IF py_int(r.cookies.strava_remember_id) = NotAnInt
    THEN [r EXCEPT !.error = IF r.cookies.strava_remember_id = NoSetCookie
                             THEN "TypeError" ELSE "ValueError",
                   !.message = "int() failed"]
    ELSE IF api_id = ApiFault
    THEN [r EXCEPT !.error = "Fault", !.message = "get_athlete failed"]
    ELSE IF py_int(r.cookies.strava_remember_id) # api_id
    THEN [r EXCEPT !.error = "ValueError",
                   !.message = "API and web credentials are for different accounts"]
    ELSE r

\* the constructor's arguments: a token (alone or on top of a full email and
\* password), or no token and any of email and password
KwargsSet ==
    {kw \in [jwt : Jwts \cup {NoJwt}, email : Emails, password : Passwords,
             csrf : CsrfArgs] :
        kw.jwt # NoJwt => ((kw.email = "") <=> (kw.password = ""))}

\* ------------------------------------------------------------- actions
\* the messages of the errors ScrapingClient.__init__ ends with
LoginMessages ==
    {"Failed to parse JWT payload", "Failed to extract required data from the JWT",
     "JWT has expired", "Couldn't find CSRF token",
     "Couldn't log in to website, check creds",
     "'jwt' or both of 'email' and 'password' are required"}

Init ==
    /\ client = "none"
    /\ kwargs = NoKwargs
    /\ cookies = NoCookies
    /\ _csrf = EmptyDict
    /\ log = <<>>
    /\ resp = NoResponse
    /\ outcome = Outcome("none", "none", "", 0)
    /\ env = NoEnv
    /\ gen = NoGen
    /\ yielded = <<>>
    /\ received = <<>>
    /\ ExtraInit

\* env keeps an answer of the world only where the constructor asked for it
Constructed(kind, kw, r, world) ==
    /\ client' = IF r.error = "none" THEN kind ELSE "failed"
    /\ env' = [now |-> IF kw.jwt # NoJwt THEN world.now ELSE NoEnv.now,
               api_id |-> IF kind = "web" /\ r.message \notin LoginMessages
                             /\ r.message # "int() failed"
                          THEN world.api_id ELSE NoEnv.api_id,
               about |-> IF r.reqs # <<>> /\ r.reqs[1].service = "about"
                         THEN world.about ELSE NoEnv.about]
    /\ kwargs' = kw
    /\ cookies' = r.cookies
    /\ _csrf' = r._csrf
    /\ log' = r.reqs
    /\ resp' = r.resp
    /\ outcome' = Outcome(IF kind = "web" THEN "WebClient.__init__"
                           ELSE "ScrapingClient.__init__", r.error, r.message, 0)
    /\ UNCHANGED <<listvars, extravars>>

\* ScrapingClient(jwt=.., email=.., password=.., csrf=..)
NewScrapingClient ==
    /\ client = "none"
    /\ \E kw \in KwargsSet, now \in 0..MaxTime, about \in AboutPages,
          response \in PostResponses :
          Constructed("scraping", kw, ScrapingClient__init__(kw, now, about, response),
                      [now |-> now, api_id |-> ApiFault, about |-> about])

\* WebClient(jwt=.., email=.., password=.., csrf=.., access_token=..)
NewWebClient ==
    /\ client = "none"
    /\ \E kw \in KwargsSet, now \in 0..MaxTime, about \in AboutPages,
          response \in PostResponses, api_id \in ApiIds :
          Constructed("web", kw, WebClient__init__(kw, now, about, response, api_id),
                      [now |-> now, api_id |-> api_id, about |-> about])

Usable == client \in {"scraping", "web"}

\* variant: the CSRF pair is left out of the form
DeleteFormWithoutCsrf(pair) == ("_method" :> "delete")

\* the form delete_activity posts
DeleteForm(pair) == DictMerge(("_method" :> "delete"), pair)

\* variant: any redirect counts as a deletion
DeleteFailedUnlessRedirect(response) == ~response.is_redirect

\* the test delete_activity makes on the response to its POST
DeleteFailed(response) ==
    ~response.is_redirect \/ ~EndsWith(response.next_url, <<"athlete", "training">>)

\* ScrapingClient.delete_activity
delete_activity(activity_id, about, response) ==
    LET c == csrf(_csrf, about) IN
    /\ _csrf' = c._csrf
    /\ env' = IF c.reqs # <<>> THEN [env EXCEPT !.about = about] ELSE env
    /\ IF c.error # "none"
       THEN /\ log' = log \o c.reqs
            /\ resp' = resp
            /\ outcome' = Outcome("delete_activity", c.error, "Couldn't find CSRF token", 0)
            /\ cookies' = cookies
       ELSE /\ log' = log \o c.reqs \o
                      <<Request("POST", "activities", activity_id,
                                DeleteForm(c._csrf), 0, EmptyDict)>>
            /\ resp' = response
            /\ cookies' = StoreCookies(cookies, response)
            /\ outcome' =
                 IF DeleteFailed(response)
                 THEN Outcome("delete_activity", "Fault", "Failed to delete activity",
                              response.status_code)
                 ELSE Outcome("delete_activity", "none", "", 0)

DeleteActivity ==
    /\ Usable
    /\ Len(log) < MaxReq
    /\ \E activity_id \in ActivityIds, about \in AboutPages,
          response \in DeleteResponses :
          delete_activity(activity_id, about, response)
    /\ UNCHANGED <<client, kwargs>>
    /\ UNCHANGED <<listvars, extravars>>

\* reading the csrf property of the client
ReadCsrf ==
    /\ Usable
    /\ Len(log) < MaxReq
    /\ \E about \in AboutPages :
          LET c == csrf(_csrf, about) IN
          /\ _csrf' = c._csrf
          /\ env' = IF c.reqs # <<>> THEN [env EXCEPT !.about = about] ELSE env
          /\ log' = log \o c.reqs
          /\ outcome' = Outcome("csrf", c.error,
                                IF c.error = "none" THEN "" ELSE "Couldn't find CSRF token", 0)
    /\ UNCHANGED <<client, kwargs, cookies, resp>>
    /\ UNCHANGED <<listvars, extravars>>

Next ==
    \/ NewScrapingClient
    \/ NewWebClient
    \/ DeleteActivity
    \/ ReadCsrf

Spec == Init /\ [][Next]_vars

\* ------------------------------------------------- the listing generator
\* variant: off by one, the limit is tested with >
LimitExceeded(limit, num_yielded) ==
    limit # NoneNum /\ num_yielded > limit[1]

\* "limit is not None and num_yielded >= limit"
LimitReached(limit, num_yielded) ==
    limit # NoneNum /\ num_yielded >= limit[1]

\* variant: the page counter is not advanced
SamePage(page) == page

\* "page += 1"
NextPage(page) == page + 1

\* variant: no activity counts as newer than 'before'
NeverNewerThanBefore(ts, before) == FALSE

\* "elif ts > before": continue
NewerThanBefore(ts, before) == ts > before

\* variant: an activity older than 'after' is only skipped
NeverOlderThanAfter(ts, after) == FALSE

\* "if ts < after": return
OlderThanAfter(ts, after) == ts < after

\* the generator is suspended or absent: the caller's thread is free
Running == gen.pc \in {"request", "iter"}

\* client.get_activities(...): creates the generator, runs none of its body
GetActivities ==
    /\ Usable
    /\ gen.pc = "none"
    /\ \E a \in ListArgsSet :
          gen' = Frame("created", a, 0, 0, 0, 0, <<>>, 0)
    /\ UNCHANGED <<extravars, sessionvars, log, outcome, yielded, received>>

\* first next(): the argument checks and the locals before the while loop
GenStart ==
    /\ gen.pc = "created"
    /\ IF ValidateListArgs(gen.args) # "none"
       THEN /\ gen' = [gen EXCEPT !.pc = "raised"]
            /\ outcome' = Outcome("get_activities", ValidateListArgs(gen.args),
                                  "Invalid arguments", 0)
       ELSE /\ gen' = [gen EXCEPT
                         !.pc = "request",
                         !.before = IF gen.args.before = NoneNum
                                    THEN DatetimeMaxEpoch ELSE gen.args.before[1],
                         !.after = IF gen.args.after = NoneNum
                                   THEN DatetimeMinEpoch ELSE gen.args.after[1],
                         !.num_yielded = 0,
                         !.page = 1]
            /\ outcome' = outcome
    /\ UNCHANGED <<extravars, sessionvars, log, yielded, received>>

\* head of the while loop: request the page and look at the response
GenRequest ==
    /\ gen.pc = "request"
    /\ gen.page <= MaxPages
    /\ log' = Append(log, Request("GET", "athlete/training_activities", 0, EmptyDict,
                                   gen.page, ListParams(gen.args)))
    /\ \E r \in ListResponses :
          IF r.status_code # 200
          THEN /\ gen' = [gen EXCEPT !.pc = "raised"]
               /\ outcome' = Outcome("get_activities", "Fault",
                                     "Failed to list activities", r.status_code)
               /\ received' = received
          ELSE IF r.body # "json"
          THEN /\ gen' = [gen EXCEPT !.pc = "raised"]
               /\ outcome' = Outcome("get_activities", "ScrapingError",
                                     "Invalid JSON response from Strava", 0)
               /\ received' = received
          ELSE /\ received' = Append(received, r.models)
               /\ IF r.models = <<>>
                  THEN /\ gen' = [gen EXCEPT !.pc = "returned", !.data = <<>>]
                       /\ outcome' = Outcome("get_activities", "none", "", 0)
                  ELSE /\ gen' = [gen EXCEPT !.pc = "iter", !.data = r.models, !.i = 1]
                       /\ outcome' = outcome
    /\ UNCHANGED <<extravars, sessionvars, yielded>>

\* one turn of the for loop over the page's records
GenIter ==
    /\ gen.pc = "iter"
    /\ IF gen.i > Len(gen.data)
       THEN \* the page is used up: page += 1
            /\ gen' = [gen EXCEPT !.pc = "request", !.page = NextPage(gen.page)]
            /\ UNCHANGED <<yielded, outcome>>
       ELSE IF LimitReached(gen.args.limit, gen.num_yielded)
       THEN /\ gen' = [gen EXCEPT !.pc = "returned"]
            /\ outcome' = Outcome("get_activities", "none", "", 0)
            /\ UNCHANGED yielded
       ELSE IF OlderThanAfter(ScrapedActivity(gen.data[gen.i]).start_date, gen.after)
       THEN /\ gen' = [gen EXCEPT !.pc = "returned"]
            /\ outcome' = Outcome("get_activities", "none", "", 0)
            /\ UNCHANGED yielded
       ELSE IF NewerThanBefore(ScrapedActivity(gen.data[gen.i]).start_date, gen.before)
       THEN /\ gen' = [gen EXCEPT !.i = gen.i + 1]
            /\ UNCHANGED <<yielded, outcome>>
       ELSE /\ gen' = [gen EXCEPT !.pc = "yielded"]
            /\ yielded' = Append(yielded, ScrapedActivity(gen.data[gen.i]))
            /\ UNCHANGED outcome
    /\ UNCHANGED <<extravars, sessionvars, log, received>>

\* the consumer calls next() on the suspended generator: num_yielded += 1
GenResume ==
    /\ gen.pc = "yielded"
    /\ gen' = [gen EXCEPT !.pc = "iter", !.num_yielded = gen.num_yielded + 1,
                          !.i = gen.i + 1]
    /\ UNCHANGED <<extravars, sessionvars, log, outcome, yielded, received>>

\* a client resumed from a token, as _login_with_jwt leaves it
InitList ==
    /\ client = "scraping"
    /\ kwargs = [NoKwargs EXCEPT !.jwt = ServerJwt]
    /\ cookies = _login_with_jwt(ServerJwt, 0).cookies
    /\ _csrf = EmptyDict
    /\ log = <<>>
    /\ resp = NoResponse
    /\ outcome = Outcome("ScrapingClient.__init__", "none", "", 0)
    /\ env = NoEnv
    /\ gen = NoGen
    /\ yielded = <<>>
    /\ received = <<>>
    /\ ExtraInit

NextList ==
    \/ GetActivities
    \/ GenStart
    \/ GenRequest
    \/ GenIter
    \/ GenResume

SpecList == InitList /\ [][NextList]_vars

\* ------------------------------------------- functions applied on their own
\* a record's type and its workout_type integer (NoneNum: null)
DecodeInputs ==
    {[type |-> t, wt |-> w] :
        t \in ActivityTypes, w \in {NoneNum} \cup {Some(n) : n \in 0..MaxWorkoutCode}}
\* a type of the table and one of its labels
LabelInputs ==
    UNION {{[type |-> t, label |-> l] : l \in DOMAIN ACTIVITY_WORKOUT_TYPES[t]} :
             t \in DOMAIN ACTIVITY_WORKOUT_TYPES}

\* the dates a component was added and removed (NoneNum: the attribute is unset)
AddedDates == {NoneNum, Some(EpochDate), Some(Date(2020, 1, 5))}
RemovedDates == {NoneNum, Some(Date(2020, 1, 5)), Some(Date(2021, 3, 1))}
\* the components a bike may hold
Components ==
    {[id |-> <<"1">>, type |-> "Chain", added |-> a, removed |-> r, distance |-> 0] :
        a \in AddedDates, r \in RemovedDates}
\* the arguments components_on_date is called with
OnDates ==
    {NoneNum,
     Some(OnDate("date", Date(1969, 12, 31), 0)),
     Some(OnDate("date", Date(2020, 1, 5), 0)),
     Some(OnDate("datetime", Date(2020, 1, 5), 3600)),
     Some(OnDate("datetime", Date(2020, 6, 1), 1)),
     Some(OnDate("date", Date(2021, 3, 2), 0))}
ComponentsOnDateInputs ==
    {[components |-> cs, on_date |-> d] :
        cs \in SeqsUpTo(Components, MaxComponents), d \in OnDates}

\* calc holds one function with one of its arguments
PureInputs ==
    \/ \E a \in DecodeInputs : calc = Calc("decode", a)
    \/ \E a \in LabelInputs : calc = Calc("encode_decode", a)
    \/ \E i \in DOMAIN DateCells : calc = Calc("_parse_component_date", DateCells[i])
    \/ \E i \in DOMAIN DistanceCells : calc = Calc("distance", DistanceCells[i])
    \/ \E a \in ComponentsOnDateInputs : calc = Calc("components_on_date", a)

\* the function returns: calc records its result, nothing else changes
Returns(out) ==
    /\ calc' = [calc EXCEPT !.done = TRUE, !.out = out]
    /\ UNCHANGED <<sessionvars, listvars, log, outcome, obj, hist, ret>>

\* the listing loop's translation of one record's workout type
Decode ==
    /\ calc.fn = "decode" /\ ~calc.done
    /\ Returns(DecodeWorkoutType(calc.arg.type, calc.arg.wt))

\* a label sent through the argument check's table, then through the loop's
EncodeDecode ==
    /\ calc.fn = "encode_decode" /\ ~calc.done
    /\ Returns(DecodeWorkoutType(calc.arg.type,
                                  EncodeWorkoutType(calc.arg.type, calc.arg.label)))

\* the date of a cell of the component table
ParseComponentDate ==
    /\ calc.fn = "_parse_component_date" /\ ~calc.done
    /\ Returns(_parse_component_date(calc.arg))

\* the meters of a cell of the distance column
ParseDistance ==
    /\ calc.fn = "distance" /\ ~calc.done
    /\ Returns(distance(calc.arg))

\* bike.components_on_date(on_date)
ComponentsOnDate ==
    /\ calc.fn = "components_on_date" /\ ~calc.done
    /\ Returns(components_on_date(calc.arg.components, calc.arg.on_date))

InitPure ==
    /\ client = "none"
    /\ kwargs = NoKwargs
    /\ cookies = NoCookies
    /\ _csrf = EmptyDict
    /\ log = <<>>
    /\ resp = NoResponse
    /\ outcome = Outcome("none", "none", "", 0)
    /\ env = NoEnv
    /\ gen = NoGen
    /\ yielded = <<>>
    /\ received = <<>>
    /\ PureInputs
    /\ obj = NoObj
    /\ hist = <<>>
    /\ ret = NoRet

NextPure ==
    \/ Decode
    \/ EncodeDecode
    \/ ParseComponentDate
    \/ ParseDistance
    \/ ComponentsOnDate

SpecPure == InitPure /\ [][NextPure]_vars

\* ------------------------------------------------------- calls for gear
\* client.get_bike_details(bike_id)
GetBikeDetails ==
    /\ Usable
    /\ Len(log) < MaxReq
    /\ \E bike_id \in GearIds, page \in BikePages :
          LET r == get_bike_details(bike_id, page)
          IN  /\ log' = log \o r.reqs
              /\ outcome' = Outcome("get_bike_details", r.error, r.message, r.status_code)
              /\ ret' = Ret("get_bike_details", bike_id, r.value)
    /\ UNCHANGED <<sessionvars, listvars, calc, obj, hist>>

\* client.get_gear(gear_id)
GetGear ==
    /\ Usable
    /\ Len(log) < MaxReq
    /\ \E gear_id \in GearIds, bikes \in BikeListings, shoes \in ShoeListings :
          LET r == get_gear(athlete_id, gear_id, bikes, shoes)
          IN  /\ log' = log \o r.reqs
              /\ outcome' = Outcome("get_gear", r.error, r.message, r.status_code)
              /\ ret' = Ret("get_gear", gear_id, r.value)
    /\ UNCHANGED <<sessionvars, listvars, calc, obj, hist>>

\* list(client.get_all_bikes(arg)), for no athlete, oneself and another one
GetAllBikes ==
    /\ Usable
    /\ Len(log) < MaxReq
    /\ \E arg \in {NoneNum, Some(athlete_id), Some(athlete_id + 1)},
          bikes \in BikeListings, athlete_ok \in BOOLEAN :
          LET r == get_all_bikes(athlete_id, arg, bikes, athlete_ok)
          IN  /\ log' = log \o r.reqs
              /\ outcome' = Outcome("get_all_bikes", r.error, r.message, r.status_code)
              /\ ret' = Ret("get_all_bikes", arg, r.value)
    /\ UNCHANGED <<sessionvars, listvars, calc, obj, hist>>

\* list(client.get_all_shoes(arg))
GetAllShoes ==
    /\ Usable
    /\ Len(log) < MaxReq
    /\ \E arg \in {NoneNum, Some(athlete_id), Some(athlete_id + 1)},
          shoes \in ShoeListings, athlete_ok \in BOOLEAN :
          LET r == get_all_shoes(athlete_id, arg, shoes, athlete_ok)
          IN  /\ log' = log \o r.reqs
              /\ outcome' = Outcome("get_all_shoes", r.error, r.message, r.status_code)
              /\ ret' = Ret("get_all_shoes", arg, r.value)
    /\ UNCHANGED <<sessionvars, listvars, calc, obj, hist>>

\* a caller that lists activities, or makes calls for gear
NextGear ==
    \/ (outcome.op = "ScrapingClient.__init__" /\ GetActivities)
    \/ GenStart
    \/ GenRequest
    \/ GenIter
    \/ GenResume
    \/ (gen.pc = "none" /\ GetBikeDetails)
    \/ (gen.pc = "none" /\ GetGear)
    \/ (gen.pc = "none" /\ GetAllBikes)
    \/ (gen.pc = "none" /\ GetAllShoes)

SpecGear == InitList /\ [][NextGear]_vars

\* ----------------------------------------------- reading lazy attributes
\* the access ends: what it leaves of the object, the requests it sent, the
\* value it returned or the error it raised
Accessed(op, attr, loaded, value, o, reqs, error) ==
    /\ obj' = o
    /\ log' = log \o reqs
    /\ hist' = Append(hist, [op |-> op, attr |-> attr, loaded |-> loaded,
                             value |-> value, error |-> error])
    /\ ret' = Ret(op, attr, value)
    /\ outcome' = Outcome(op, error, "", 0)

\* LazyLoaded.__get__(obj, clazz) of the attribute
LazyLoaded__get__(attr) ==
    LET d == LazyAttrs[obj.kind][attr]
        stored == obj.data[attr]
    IN  IF UseStored(d, stored)
        THEN Accessed("__get__", attr, FALSE, stored, obj, <<>>, "none")
        ELSE IF d.fcn
        THEN \E value \in Resolve(obj, attr) :
                Accessed("__get__", attr, TRUE, value,
                         IF Keeps(d, value) THEN [obj EXCEPT !.data[attr] = value]
                         ELSE obj,
                         <<>>, "none")
        ELSE IF d.key \notin DOMAIN obj.cache
        THEN \E r \in Loads(obj, d.key) :
                IF r.error # "none"
                THEN Accessed("__get__", attr, TRUE, NoneNum, obj, r.reqs, r.error)
                ELSE Accessed("__get__", attr, TRUE,
                              IF d.key \in DOMAIN DictMerge(obj.cache, r.value)
                              THEN Some(DictMerge(obj.cache, r.value)[d.key])
                              ELSE NoneNum,
                              [obj EXCEPT !.cache = DictMerge(obj.cache, r.value)],
                              r.reqs, "none")
        ELSE Accessed("__get__", attr, FALSE, Some(obj.cache[d.key]), obj, <<>>, "none")

\* LazyLoaded.__set__(obj, val) of the attribute
LazyLoaded__set__(attr, val) ==
    IF LazyAttrs[obj.kind][attr].property
    THEN Accessed("__set__", attr, FALSE, val, obj, <<>>, "AttributeError")
    ELSE Accessed("__set__", attr, FALSE, val, [obj EXCEPT !.data[attr] = val], <<>>,
                  "none")

\* reading obj.<attr>
GetAttr ==
    /\ Len(hist) < MaxAccess
    /\ \E attr \in DOMAIN LazyAttrs[obj.kind] : LazyLoaded__get__(attr)
    /\ UNCHANGED <<sessionvars, listvars, calc>>

\* obj.<attr> = val
SetAttr ==
    /\ Len(hist) < MaxAccess
    /\ \E attr \in DOMAIN LazyAttrs[obj.kind] :
          \E val \in SetValues(obj.kind, attr) : LazyLoaded__set__(attr, val)
    /\ UNCHANGED <<sessionvars, listvars, calc>>

\* an object bound to a client resumed from a token
InitLazy ==
    /\ client = "scraping"
    /\ kwargs = [NoKwargs EXCEPT !.jwt = ServerJwt]
    /\ cookies = _login_with_jwt(ServerJwt, 0).cookies
    /\ _csrf = EmptyDict
    /\ log = <<>>
    /\ resp = NoResponse
    /\ outcome = Outcome("ScrapingClient.__init__", "none", "", 0)
    /\ env = NoEnv
    /\ gen = NoGen
    /\ yielded = <<>>
    /\ received = <<>>
    /\ calc = NoCalc
    /\ obj \in Entities
    /\ hist = <<>>
    /\ ret = NoRet

NextLazy ==
    \/ GetAttr
    \/ SetAttr

SpecLazy == InitLazy /\ [][NextLazy]_vars

\* ------------------------------------------------------ the activity export
\* client.get_activity_data(activity_id, fmt, json_fmt); r1, r2 and r3 are the
\* answers to the first, second and third request, should it send as many
GetActivityData ==
    /\ Usable
    /\ Len(log) < MaxReq
    /\ \E activity_id \in ActivityIds, fmt \in FormatArgs \ {PyNone},
          json_fmt \in FormatArgs, r1 \in ExportResponses, r2 \in ExportResponses,
          r3 \in ExportResponses :
          LET r == get_activity_data(activity_id, fmt, json_fmt, <<r1, r2, r3>>)
          IN  /\ log' = log \o r.reqs
              /\ received' = SubSeq(<<r1, r2, r3>>, 1, Len(r.reqs))
              /\ outcome' = Outcome("get_activity_data", r.error, r.message, r.status_code)
              /\ ret' = Ret("get_activity_data",
                            [activity_id |-> activity_id, fmt |-> fmt,
                             json_fmt |-> json_fmt],
                            r.value)
    /\ UNCHANGED <<sessionvars, gen, yielded, calc, obj, hist>>

\* a caller that exports activities from a client resumed from a token
NextExport == GetActivityData

SpecExport == InitList /\ [][NextExport]_vars

\* ------------------------------------------------------------ challenges
\* client.get_challenge(challenge_id)
GetChallenge ==
    /\ Usable
    /\ Len(log) < MaxReq
    /\ \E challenge_id \in ChallengeIds, page \in ChallengePages :
          LET r == get_challenge(challenge_id, page)
          IN  /\ log' = log \o r.reqs
              /\ outcome' = Outcome("get_challenge", r.error, r.message, r.status_code)
              /\ ret' = Ret("get_challenge", [challenge_id |-> challenge_id, page |-> page],
                            r.value)
    /\ UNCHANGED <<sessionvars, listvars, calc, obj, hist>>

\* a caller that looks challenges up from a client resumed from a token
NextChallenge == GetChallenge

SpecChallenge == InitList /\ [][NextChallenge]_vars

\* ------------------------------------------------------------ the athlete
\* client.get_athlete(arg), for no id, oneself and another athlete; the
\* caller keeps the athlete it got last and goes on to read its gear
GetAthlete ==
    /\ Usable
    /\ Len(log) < MaxReq
    /\ hist = <<>>
    /\ \E arg \in {NoneNum, Some(athlete_id), Some(athlete_id + 1)},
          page \in AthletePages :
          LET r == get_athlete(athlete_id, arg, page)
          IN  /\ log' = log \o r.reqs
              /\ outcome' = Outcome("get_athlete", r.error, r.message, r.status_code)
              /\ obj' = IF r.error = "none" THEN r.value ELSE obj
              /\ ret' = Ret("get_athlete", arg, <<>>)
              /\ hist' = <<>>
    /\ UNCHANGED <<sessionvars, listvars, calc>>

\* list(obj.bikes) or list(obj.shoes): LazyLoaded.__get__ of the attribute,
\* _AthleteData.load_attribute where the attribute holds None and the cache
\* lacks the key, and the run of the generator it returns
ListGear(key) ==
    IF UseStored(ByKey(key), obj.data[key])
    THEN Accessed("list", key, FALSE, obj.data[key][1], obj, <<>>, "none")
    ELSE IF key \in DOMAIN obj.cache /\ obj.cache[key]
    THEN Accessed("list", key, FALSE, <<>>, obj, <<>>, "none")
    ELSE \E listing \in IF key = "bikes" THEN BikeListings ELSE ShoeListings,
            athlete_ok \in BOOLEAN :
            LET r == IF key = "bikes"
                     THEN get_all_bikes(athlete_id, obj.id, listing, athlete_ok)
                     ELSE get_all_shoes(athlete_id, obj.id, listing, athlete_ok)
            IN  Accessed("list", key, key \notin DOMAIN obj.cache, r.value,
                         [obj EXCEPT !.cache = DictMerge(obj.cache, key :> TRUE)],
                         r.reqs, r.error)

\* the caller reads the athlete's bikes or shoes and runs through them
ReadGear ==
    /\ obj.kind = "ScrapedAthlete"
    /\ Len(log) < MaxReq
    /\ Len(hist) < MaxAccess
    /\ \E key \in {"bikes", "shoes"} : ListGear(key)
    /\ UNCHANGED <<sessionvars, listvars, calc>>

\* a client resumed from a token; the caller holds no athlete yet, or one it
\* built itself (the logged-in one, another one, one without an id) with
\* neither bikes nor shoes set
InitAthlete ==
    /\ client = "scraping"
    /\ kwargs = [NoKwargs EXCEPT !.jwt = ServerJwt]
    /\ cookies = _login_with_jwt(ServerJwt, 0).cookies
    /\ _csrf = EmptyDict
    /\ log = <<>>
    /\ resp = NoResponse
    /\ outcome = Outcome("ScrapingClient.__init__", "none", "", 0)
    /\ env = NoEnv
    /\ gen = NoGen
    /\ yielded = <<>>
    /\ received = <<>>
    /\ calc = NoCalc
    /\ \/ obj = NoObj
       \/ \E id \in {NoneNum, Some(athlete_id), Some(athlete_id + 1)} :
             obj = Athlete("constructed", id, NoneNum, NoneNum)
    /\ hist = <<>>
    /\ ret = NoRet

NextAthlete ==
    \/ GetAthlete
    \/ ReadGear

SpecAthlete == InitAthlete /\ [][NextAthlete]_vars

\* ===================================================== properties: login
InitOps == {"ScrapingClient.__init__", "WebClient.__init__"}
\* the constructor has just run, on the token path
ByToken == outcome.op \in InitOps /\ kwargs.jwt # NoJwt
\* the constructor has just run, on the password path
ByPassword ==
    outcome.op \in InitOps /\ kwargs.jwt = NoJwt /\ kwargs.email # "" /\ kwargs.password # ""

\* the token has a payload segment that decodes to a dict with exp and sub
WellFormed(token) ==
    /\ token.nseg >= 2
    /\ token.payload.decodable
    /\ {"exp", "sub"} \subseteq DOMAIN token.payload.data

\* the login step of the constructor ended without error
LoggedIn == outcome.message \notin LoginMessages

\* C1: token login with a well-formed token whose exp >= now succeeds and
\* leaves the identity cookie equal to the token's subject and the token
\* cookie equal to the raw token: athlete_id = int(sub), jwt = the token.
C1_TokenLogin ==
    (ByToken /\ WellFormed(kwargs.jwt) /\ kwargs.jwt.payload.data["exp"].n >= env.now)
      => /\ LoggedIn
         /\ outcome.op = "ScrapingClient.__init__" => client = "scraping"
         /\ cookies.strava_remember_id = JsonToStr(kwargs.jwt.payload.data["sub"])
         /\ athlete_id = JsonToInt(kwargs.jwt.payload.data["sub"])
         /\ jwt = kwargs.jwt

\* a client resumed from a token whose subject is the integer 12
C1_Witness ==
    /\ ByToken
    /\ client = "scraping"
    /\ WellFormed(kwargs.jwt)
    /\ kwargs.jwt.payload.data["sub"] = JsonInt(12)
    /\ athlete_id = 12
    /\ jwt = kwargs.jwt

\* C2: token login fails with an error when the token is expired, its
\* payload cannot be decoded, or exp or sub is absent; in each of these cases
\* neither cookie is set.
C2_TokenLoginFails ==
    (ByToken /\ (~WellFormed(kwargs.jwt) \/ kwargs.jwt.payload.data["exp"].n < env.now))
      => /\ client = "failed"
         /\ outcome.error = "ValueError"
         /\ ~LoggedIn
         /\ cookies = NoCookies

\* an expired but otherwise well-formed token was refused
C2_Witness ==
    /\ ByToken
    /\ WellFormed(kwargs.jwt)
    /\ kwargs.jwt.payload.data["exp"].n < env.now
    /\ outcome.message = "JWT has expired"
    /\ cookies = NoCookies

SessionPost(r) == r.method = "POST" /\ r.service = "session"
AboutGet(r) == r.method = "GET" /\ r.service = "about"
\* the response is a redirect to somewhere other than the login page
RedirectedPastLogin(r) == r.is_redirect /\ ~EndsWith(r.next_url, <<"login">>)

\* C3: password login obtains the CSRF pair first (scraping the about page
\* unless a pair was supplied), then POSTs email, password and the pair to
\* "session"; it succeeds iff the response is a redirect whose target is not
\* the login page, and fails with LoginFailed otherwise.
C3_PasswordLogin ==
    (ByPassword /\ outcome.message # "Couldn't find CSRF token")
      => /\ Len(log) = IF kwargs.csrf = EmptyDict THEN 2 ELSE 1
         /\ \A i \in 1..(Len(log) - 1) : AboutGet(log[i])
         /\ SessionPost(log[Len(log)])
         /\ _csrf # EmptyDict
         /\ log[Len(log)].form =
               DictMerge(("email" :> kwargs.email) @@ ("password" :> kwargs.password)
                           @@ ("remember_me" :> "on"), _csrf)
         /\ (outcome.error = "LoginFailed") <=> ~RedirectedPastLogin(resp)
         /\ LoggedIn <=> RedirectedPastLogin(resp)
         /\ outcome.op = "ScrapingClient.__init__"
               => ((client = "scraping") <=> RedirectedPastLogin(resp))

\* a password login that scraped the pair, posted and was redirected onwards
C3_Witness ==
    /\ ByPassword
    /\ client = "scraping"
    /\ Len(log) = 2
    /\ AboutGet(log[1])
    /\ SessionPost(log[2])
    /\ resp.next_url = <<"dashboard">>

\* C4: WebClient construction completes only if the session's athlete id
\* equals the id the REST API reports; on a mismatch it raises and no client
\* results.
C4_AccountCrossCheck ==
    outcome.op = "WebClient.__init__"
      => /\ client = "web"
              => (athlete_id # NotAnInt /\ env.api_id # ApiFault
                    /\ athlete_id = env.api_id)
         /\ (LoggedIn /\ athlete_id # env.api_id)
              => (client = "failed" /\ outcome.error # "none")

\* a WebClient whose two credentials belong to different accounts was refused
C4_Witness ==
    /\ outcome.op = "WebClient.__init__"
    /\ outcome.message = "API and web credentials are for different accounts"
    /\ athlete_id # NotAnInt
    /\ env.api_id # ApiFault
    /\ client = "failed"

\* ====================================================== properties: CSRF
\* the number of requests for the about page in a log
AboutRequests(l) == Cardinality({i \in DOMAIN l : AboutGet(l[i])})
ActivityPost(r) == r.method = "POST" /\ r.service = "activities"
ActivityPosts(l) == Cardinality({i \in DOMAIN l : ActivityPost(l[i])})

\* C5: once a CSRF pair is held (supplied to the constructor or scraped on
\* first need) no operation requests the about page again and the pair never
\* changes, so the pair is scraped at most once; with a supplied pair the
\* about page is never requested.
C5_CsrfFetchedOnce ==
    /\ [][_csrf # EmptyDict
            => (_csrf' = _csrf /\ AboutRequests(log') = AboutRequests(log))]_vars
    /\ [](kwargs.csrf # EmptyDict
            => (_csrf = kwargs.csrf /\ AboutRequests(log) = 0))

\* a scraped pair served two deletions with a single about request
C5_Witness ==
    /\ Usable
    /\ kwargs.csrf = EmptyDict
    /\ _csrf # EmptyDict
    /\ AboutRequests(log) = 1
    /\ ActivityPosts(log) = 2

\* the page lacks the csrf-param or the csrf-token meta tag
LacksTag(about) ==
    "csrf-param" \notin DOMAIN about \/ "csrf-token" \notin DOMAIN about

\* C6: when the about page that is scraped lacks either meta tag, the
\* operation fails with an error, no pair is cached and no POST is sent:
\* the about request is the only request of the operation.
C6_CsrfNotFound ==
    [][(AboutRequests(log') > AboutRequests(log) /\ LacksTag(env'.about))
         => /\ outcome'.error = "Fault"
            /\ outcome'.message = "Couldn't find CSRF token"
            /\ _csrf' = EmptyDict
            /\ log' = Append(log, Request("GET", "about", 0, EmptyDict, 0, EmptyDict))
            /\ client' \in {client, "failed"}]_vars

\* a deletion that stopped at an about page without the tags
C6_Witness ==
    /\ outcome.op = "delete_activity"
    /\ outcome.error = "Fault"
    /\ LacksTag(env.about)
    /\ _csrf = EmptyDict
    /\ Len(log) >= 1
    /\ AboutGet(log[Len(log)])

\* C7: every POST the client has sent (login and delete_activity) carries
\* the session's CSRF name/value pair among its form fields.
C7_PostsCarryCsrf ==
    \A i \in DOMAIN log :
        log[i].method = "POST"
          => /\ _csrf # EmptyDict
             /\ \A k \in DOMAIN _csrf :
                   k \in DOMAIN log[i].form /\ log[i].form[k] = _csrf[k]

\* a login POST and a delete POST have both been sent
C7_Witness ==
    /\ \E i \in DOMAIN log : SessionPost(log[i])
    /\ \E i \in DOMAIN log : ActivityPost(log[i])

\* =============================================== properties: delete_activity
\* delete_activity has just run and got as far as its POST
DeletePosted ==
    outcome.op = "delete_activity" /\ outcome.message # "Couldn't find CSRF token"

\* C8: delete_activity succeeds iff the response to its POST is a redirect
\* whose target ends with /athlete/training; otherwise it raises a Fault
\* carrying the response's status code; one call sends one POST, no retry.
C8_DeleteOutcome ==
    /\ [](DeletePosted
            => /\ ActivityPost(log[Len(log)])
               /\ (outcome.error = "none")
                     <=> (resp.is_redirect
                            /\ EndsWith(resp.next_url, <<"athlete", "training">>))
               /\ outcome.error # "none"
                     => (outcome.error = "Fault"
                           /\ outcome.status_code = resp.status_code))
    /\ [][ActivityPosts(log') <= ActivityPosts(log) + 1]_vars

\* a deletion answered with a redirect to another page failed with its status
C8_Witness ==
    /\ DeletePosted
    /\ resp.is_redirect
    /\ resp.next_url = <<"dashboard">>
    /\ outcome.error = "Fault"
    /\ outcome.status_code = 302

\* ================================================== properties: listing
RECURSIVE Flatten(_)
\* the records of a sequence of pages, in order
Flatten(pages) ==
    IF pages = <<>> THEN <<>> ELSE Head(pages) \o Flatten(Tail(pages))

\* the activities built from a sequence of records
Scraped(records) == [i \in 1..Len(records) |-> ScrapedActivity(records[i])]

\* get_activities was called with no limit and no time window
Unbounded ==
    gen.args.limit = NoneNum /\ gen.args.before = NoneNum /\ gen.args.after = NoneNum

\* C9: get_activities requests pages 1, 2, 3, ... in order, each once; at
\* the first empty page it returns without error and has requested nothing
\* after it; with no limit and no time window what it has yielded when it
\* returns is exactly the records of the pages before the empty one, in order.
C9_Pagination ==
    /\ \A i \in DOMAIN log :
          log[i].service = "athlete/training_activities" /\ log[i].page = i
    /\ Len(received) <= Len(log)
    /\ \A i \in DOMAIN received : received[i] = <<>> => i = Len(received)
    /\ (received # <<>> /\ received[Len(received)] = <<>>)
          => (gen.pc = "returned" /\ outcome.error = "none"
                /\ Len(log) = Len(received))
    /\ (Unbounded /\ gen.pc = "returned")
          => (received[Len(received)] = <<>>
                /\ yielded = Scraped(Flatten(received)))

\* two pages, the second empty: the two records of page one were yielded
C9_Witness ==
    /\ Unbounded
    /\ gen.pc = "returned"
    /\ Len(received) = 2
    /\ Len(received[1]) = 2
    /\ received[2] = <<>>
    /\ Len(yielded) = 2

\* C10: with a limit L >= 0, whatever pages the server returns,
\* get_activities yields at most L activities.
C10_LimitRespected ==
    gen.args.limit # NoneNum => Len(yielded) <= gen.args.limit[1]

\* a listing cut off by its limit of 1 although more records had arrived
C10_Witness ==
    /\ gen.args.limit = Some(1)
    /\ gen.pc = "returned"
    /\ Len(yielded) = 1
    /\ Len(Flatten(received)) >= 2

\* ====================================== properties: the listing's window
\* the activity starts before the 'after' bound the caller gave
TooOld(act) == gen.args.after # NoneNum /\ act.start_date < gen.args.after[1]
\* the activity starts after the 'before' bound the caller gave
TooNew(act) == gen.args.before # NoneNum /\ act.start_date > gen.args.before[1]
NotTooNew(act) == ~TooNew(act)

RECURSIVE UntilTooOld(_)
\* the activities in front of the first one that is too old
UntilTooOld(acts) ==
    IF acts = <<>> \/ TooOld(Head(acts)) THEN <<>>
    ELSE <<Head(acts)>> \o UntilTooOld(Tail(acts))

\* the generator is about to look at a record that is too old
AtTooOld ==
    /\ gen.pc = "iter"
    /\ gen.i <= Len(gen.data)
    /\ ~(gen.args.limit # NoneNum /\ gen.num_yielded >= gen.args.limit[1])
    /\ TooOld(ScrapedActivity(gen.data[gen.i]))

ListRequests == {i \in DOMAIN log : log[i].service = "athlete/training_activities"}

\* C12: every filter given to get_activities (keywords, activity_type,
\* workout_type, commute, is_private, indoor, gear_id) is conveyed in each
\* page request; in particular a workout type given for a Ride or a Run is
\* part of the request, so that it restricts the listing.
C12_FiltersConveyed ==
    \A i \in ListRequests :
       LET p == log[i].params
           a == gen.args
       IN  /\ a.keywords # PyNone
                => ("keywords" \in DOMAIN p /\ p["keywords"] = a.keywords)
           /\ a.activity_type # PyNone
                => ("activity_type" \in DOMAIN p
                      /\ p["activity_type"] = a.activity_type)
           /\ a.commute => ("commute" \in DOMAIN p /\ p["commute"] = "true")
           /\ a.is_private
                => ("private_activities" \in DOMAIN p
                      /\ p["private_activities"] = "true")
           /\ a.indoor => ("trainer" \in DOMAIN p /\ p["trainer"] = "true")
           /\ a.gear_id # PyNone => ("gear" \in DOMAIN p /\ p["gear"] = a.gear_id)
           /\ a.workout_type # PyNone => "workout_type" \in DOMAIN p

\* the same without the workout type: what the requests do convey
C12_OtherFiltersConveyed ==
    \A i \in ListRequests :
       LET p == log[i].params
           a == gen.args
       IN  /\ a.keywords # PyNone
                => ("keywords" \in DOMAIN p /\ p["keywords"] = a.keywords)
           /\ a.activity_type # PyNone
                => ("activity_type" \in DOMAIN p
                      /\ p["activity_type"] = a.activity_type)
           /\ a.commute => ("commute" \in DOMAIN p /\ p["commute"] = "true")
           /\ a.is_private
                => ("private_activities" \in DOMAIN p
                      /\ p["private_activities"] = "true")
           /\ a.indoor => ("trainer" \in DOMAIN p /\ p["trainer"] = "true")
           /\ a.gear_id # PyNone => ("gear" \in DOMAIN p /\ p["gear"] = a.gear_id)

\* ============================================ properties: workout types
\* C13: a record of a type of the table gets the label of its workout-type
\* integer (Ride 11 is "Race"); an integer the table lacks, or none, gives no
\* label; a record of any other type gets no label; and decoding the code of
\* a label gives the label back, for every label of every type of the table.
C13_WorkoutTypeDecoding ==
    /\ (calc.fn = "decode" /\ calc.done) =>
          LET type == calc.arg.type
              wt == calc.arg.wt
          IN  /\ (type = "Ride" /\ wt = Some(11)) => calc.out = "Race"
              /\ (type = "Ride" /\ wt = Some(10)) => calc.out = PyNone
              /\ (type = "Ride" /\ wt = Some(12)) => calc.out = "Workout"
              /\ (type = "Run" /\ wt = Some(0)) => calc.out = PyNone
              /\ (type = "Run" /\ wt = Some(1)) => calc.out = "Race"
              /\ (type = "Run" /\ wt = Some(2)) => calc.out = "Long Run"
              /\ (type = "Run" /\ wt = Some(3)) => calc.out = "Workout"
              /\ (type = "Ride" /\ wt \notin {Some(10), Some(11), Some(12)})
                    => calc.out = PyNone
              /\ (type = "Run" /\ wt \notin {Some(0), Some(1), Some(2), Some(3)})
                    => calc.out = PyNone
              /\ type \notin {"Ride", "Run"} => calc.out = PyNone
    /\ (calc.fn = "encode_decode" /\ calc.done) => calc.out = calc.arg.label

\* the record of a Ride with workout type 11 was decoded to "Race"
C13_Witness ==
    /\ calc.fn = "decode" /\ calc.done
    /\ calc.arg = [type |-> "Ride", wt |-> Some(11)]
    /\ calc.out = "Race"

\* ========================================== properties: bike components
\* a date as one number, for comparing
DateNum(d) == d.year * 10000 + d.month * 100 + d.day

\* the component is installed on the day
InstalledOn(c, day) ==
    /\ c.added = NoneNum \/ DateNum(c.added[1]) <= DateNum(day)
    /\ c.removed = NoneNum \/ DateNum(day) <= DateNum(c.removed[1])

\* C18: components_on_date(d) returns, in their original order, exactly the
\* components with (added or date.min) <= d <= (removed or date.max); a
\* datetime is cut down to its date first; for None it returns all components.
C18_ComponentsOnDate ==
    (calc.fn = "components_on_date" /\ calc.done) =>
       IF calc.arg.on_date = NoneNum
       THEN calc.out = calc.arg.components
       ELSE calc.out = SelectSeq(calc.arg.components,
                                 LAMBDA c : InstalledOn(c, calc.arg.on_date[1].date))

\* asked with a datetime: the first component, removed before that day, was
\* left out; the second, never added nor removed as far as known, was kept
C18_Witness ==
    /\ calc.fn = "components_on_date" /\ calc.done
    /\ calc.arg.on_date = Some(OnDate("datetime", Date(2020, 6, 1), 1))
    /\ Len(calc.arg.components) = 2
    /\ calc.arg.components[1].removed = Some(Date(2020, 1, 5))
    /\ calc.arg.components[2].added = NoneNum
    /\ calc.arg.components[2].removed = NoneNum
    /\ calc.out = <<calc.arg.components[2]>>

\* C19: a cell reading "since beginning", in any case, gives the date of
\* epoch zero, which is a date and not the absent value; an empty cell or one
\* that is no date gives the absent value; a cell of the form "MMM DD, YYYY"
\* gives that calendar date.
C19_ComponentDates ==
    (calc.fn = "_parse_component_date" /\ calc.done) =>
       /\ calc.arg = DateCells[1] => calc.out = NoneNum
       /\ calc.arg \in {DateCells[i] : i \in 2..5}
             => (calc.out = Some(Date(1970, 1, 1)) /\ calc.out # NoneNum)
       /\ calc.arg = DateCells[6] => calc.out = Some(Date(2020, 1, 5))
       /\ calc.arg = DateCells[7] => calc.out = Some(Date(1999, 12, 31))
       /\ calc.arg = DateCells[8] => calc.out = Some(Date(2020, 2, 29))
       /\ calc.arg = DateCells[9] => calc.out = Some(Date(2021, 3, 7))
       /\ calc.arg \in {DateCells[i] : i \in 10..14} => calc.out = NoneNum

\* "Since Beginning" was read as the date of epoch zero
C19_Witness ==
    /\ calc.fn = "_parse_component_date" /\ calc.done
    /\ calc.arg = DateCells[5]
    /\ calc.out = Some(EpochDate)

\* C20, as stated: a cell ending in "mi" is multiplied by 1609.34708, any
\* other by 1000; "12.3 mi" gives 19805 meters, within rounding, and "5 km"
\* gives 5000.
C20_DistanceAsStated ==
    (calc.fn = "distance" /\ calc.done) =>
       /\ calc.arg = DistanceCells[1]
             => (calc.out # NoneNum /\ calc.out[1] \in (19805 - 1)..(19805 + 1))
       /\ calc.arg = DistanceCells[2] => calc.out = Some(5000)

\* C20, amended: a cell ending in "mi" is multiplied by 1609.34708, any other
\* by 1000, and the product is cut down to whole meters; "12.3 mi" gives
\* 19794 meters and "5 km" gives 5000.
C20_Distance ==
    (calc.fn = "distance" /\ calc.done) =>
       /\ calc.arg = DistanceCells[1] => calc.out = Some(19794)
       /\ calc.arg = DistanceCells[2] => calc.out = Some(5000)
       /\ calc.arg = DistanceCells[3] => calc.out = Some(1234500)
       /\ calc.arg = DistanceCells[4] => calc.out = Some(804)
       /\ calc.arg = DistanceCells[5] => calc.out = Some(160934)
       /\ calc.arg = DistanceCells[6] => calc.out = Some(7000)

\* "12.3 mi" was converted
C20_Witness ==
    /\ calc.fn = "distance" /\ calc.done
    /\ calc.arg = DistanceCells[1]
    /\ calc.out = Some(19794)

\* ======================================== properties: invalid arguments
\* arguments get_activities has to refuse: an unknown activity type, a
\* workout type that is none of the Ride's or the Run's, a workout type or a
\* gear id with an activity type that is neither Ride nor Run
BadListArgs(a) ==
    \/ a.activity_type # PyNone /\ a.activity_type \notin ActivityTypes
    \/ a.activity_type = "Ride" /\ a.workout_type \notin {PyNone, "Race", "Workout"}
    \/ a.activity_type = "Run"
          /\ a.workout_type \notin {PyNone, "Race", "Long Run", "Workout"}
    \/ a.activity_type \notin {"Ride", "Run"}
          /\ (a.workout_type # PyNone \/ a.gear_id # PyNone)

\* C14: invalid arguments are refused before any request is sent:
\* get_activities with an unknown activity type, with a workout type that is
\* not valid for the Ride or Run given, or with a workout type or gear id
\* when the type is neither, and get_bike_details with an id that does not
\* start with 'b', each raise ValueError and send no request.
C14_InvalidArguments ==
    /\ []((gen.pc \notin {"none", "created"} /\ BadListArgs(gen.args))
            => (gen.pc = "raised" /\ outcome.error = "ValueError" /\ log = <<>>))
    /\ [][(ret'.op = "get_bike_details"
              /\ ~(ret'.arg # <<>> /\ ret'.arg[1] = "b"))
            => (outcome'.error = "ValueError" /\ log' = log)]_vars

\* get_bike_details was called with "g1": ValueError, and nothing was sent
C14_Witness ==
    /\ ret.op = "get_bike_details"
    /\ ret.arg = <<"g", "1">>
    /\ outcome.op = "get_bike_details"
    /\ outcome.error = "ValueError"
    /\ log = <<>>

\* ============================================ properties: lazy attributes
\* access i read an attribute that is loaded by key
KeyGet(i) == hist[i].op = "__get__" /\ ~LazyAttrs[obj.kind][hist[i].attr].fcn

\* C15: reading an unresolved key-based lazy attribute of an object fetches
\* once: after the fetch, no reading of that attribute or of another one of
\* its group (bike: components, weight, frame_type, brand_name, model_name,
\* description; activity: manual, photos, device_name) fetches again.
C15_OneFetchPerGroup ==
    obj.kind \in {"ScrapedBike", "ScrapedActivity"} =>
       \A i, j \in DOMAIN hist :
          (i < j /\ KeyGet(i) /\ hist[i].loaded /\ hist[i].error = "none" /\ KeyGet(j))
             => ~hist[j].loaded

\* attribute a was assigned between accesses i and j
SetBetween(a, i, j) ==
    \E k \in (i + 1)..(j - 1) : hist[k].op = "__set__" /\ hist[k].attr = a

\* C16: an attribute resolved by a function and not marked as a property:
\* once the function has returned a value other than None, that value is
\* stored, and later readings return it without calling the function; an
\* attribute marked as a property calls its function at every reading, never
\* stores the result, and refuses assignment with an AttributeError.
C16_FunctionResolved ==
    obj.kind \in DOMAIN LazyAttrs =>
       /\ \A i, j \in DOMAIN hist :
             (/\ i < j
              /\ hist[i].op = "__get__" /\ hist[j].op = "__get__"
              /\ hist[i].attr = hist[j].attr
              /\ LazyAttrs[obj.kind][hist[i].attr].fcn
              /\ ~LazyAttrs[obj.kind][hist[i].attr].property
              /\ hist[i].loaded /\ hist[i].value # NoneNum
              /\ ~SetBetween(hist[i].attr, i, j))
               => (~hist[j].loaded /\ hist[j].value = hist[i].value)
       /\ \A a \in DOMAIN LazyAttrs[obj.kind] :
             LazyAttrs[obj.kind][a].property =>
                /\ obj.data[a] = NoneNum
                /\ \A i \in DOMAIN hist :
                      hist[i].attr = a =>
                         /\ hist[i].op = "__get__" => (hist[i].loaded /\ hist[i].error = "none")
                         /\ hist[i].op = "__set__" => hist[i].error = "AttributeError"

\* the function returned "v1" at the first reading; the second reading
\* returned "v1" without calling it
C16_Witness ==
    /\ obj.kind = "Entity"
    /\ Len(hist) = 2
    /\ hist[1].op = "__get__" /\ hist[1].loaded /\ hist[1].value = Some("v1")
    /\ hist[2].op = "__get__" /\ ~hist[2].loaded /\ hist[2].value = Some("v1")
    /\ obj.data["attr"] = Some("v1")

\* ====================================================== properties: gear
\* C17: get_gear looks an id starting with 'b' up in the listing of bikes
\* and any other id in the listing of shoes; it returns the listed gear with
\* that id and raises KeyError when the listing has none (a listing that
\* fails passes its own error on).
C17_GetGearDispatch ==
    ret.op = "get_gear" =>
       /\ log # <<>>
       /\ log[Len(log)].service
             = (IF ret.arg # <<>> /\ ret.arg[1] = "b"
                THEN "athletes/gear/bikes" ELSE "athletes/gear/shoes")
       /\ \/ outcome.error = "none" /\ ret.value # <<>> /\ ret.value[1].id = ret.arg
          \/ outcome.error \in {"KeyError", "Fault", "ScrapingError"}

\* ------------------------------------------------------------------ C25
\* the messages _login_with_jwt fails with
JwtMessages ==
    {"Failed to parse JWT payload", "Failed to extract required data from the JWT",
     "JWT has expired"}
\* the latest operation is the construction of the client
JustConstructed == outcome.op \in {"ScrapingClient.__init__", "WebClient.__init__"}
\* no token, and an email or a password is missing
NoCredentials == kwargs.jwt = NoJwt /\ (kwargs.email = "" \/ kwargs.password = "")

\* C25: a client constructed with no token and without both an email and a
\* password fails with ValueError and has sent no request; a client
\* constructed with a token logs in with that token alone: no request of the
\* password path is sent, it holds the given token when the construction
\* succeeds, and a failure of ScrapingClient.__init__ is a failure of the
\* token.
C25_CredentialsRequired ==
    JustConstructed =>
        /\ NoCredentials =>
              /\ outcome.error = "ValueError"
              /\ outcome.message = "'jwt' or both of 'email' and 'password' are required"
              /\ client = "failed"
              /\ log = <<>>
        /\ kwargs.jwt # NoJwt =>
              /\ log = <<>>
              /\ resp = NoResponse
              /\ client # "failed" => jwt = kwargs.jwt
              /\ (client = "failed" /\ outcome.message \in LoginMessages)
                    => outcome.message \in JwtMessages
\* a client built from a token that came with an email and a password
C25_Witness ==
    /\ JustConstructed
    /\ client = "scraping"
    /\ kwargs.jwt # NoJwt /\ kwargs.email # "" /\ kwargs.password # ""
    /\ log = <<>>

\* ------------------------------------------------------------------ C26
\* the listing has a limit of at least one and has yielded that many
LimitMet ==
    /\ gen.args.limit # NoneNum
    /\ gen.args.limit[1] >= 1
    /\ Len(yielded) >= gen.args.limit[1]

\* C26: with a limit L >= 1, once L activities have been yielded no step of
\* get_activities sends a further request, however often the consumer calls
\* next().
C26_NoRequestAfterLimit == [][LimitMet => log' = log]_vars

\* within a page the limit does stop the listing: once L activities have been
\* yielded and records of the current page are left, the generator returns
\* without a request
C26_NoRequestWithinPage ==
    [][(LimitMet /\ gen.pc = "iter" /\ gen.i <= Len(gen.data))
          => (log' = log /\ gen'.pc = "returned")]_vars

\* ------------------------------------------------------------------ C27
\* access i read a key-based attribute, called load_attribute, which ended
\* without an error, and got no value
LoadedNothing(i) ==
    KeyGet(i) /\ hist[i].loaded /\ hist[i].error = "none" /\ hist[i].value = NoneNum

\* C27: once a reading of a key-based attribute has called load_attribute and
\* got no value, later readings of that attribute (with no assignment in
\* between) do not call load_attribute again.
C27_NoValueNotRetried ==
    obj.kind \in DOMAIN LazyAttrs =>
       \A i, j \in DOMAIN hist :
          (/\ i < j
           /\ LoadedNothing(i)
           /\ KeyGet(j) /\ hist[j].attr = hist[i].attr
           /\ ~SetBetween(hist[i].attr, i, j))
            => ~hist[j].loaded

\* ------------------------------------------------------------------ C28
\* the access the step makes
ThisAccess == hist'[Len(hist')]
\* the step reads attribute a
Reads(a) ==
    Len(hist') = Len(hist) + 1 /\ ThisAccess.op = "__get__" /\ ThisAccess.attr = a

\* C28: reading a lazy attribute that is not marked as a property and holds
\* a value other than None returns that value, calls neither the attribute's
\* function nor load_attribute, sends no request, and leaves the object and
\* its _lazyload_cache as they were.
C28_StoredValueReturned ==
    [][\A kind \in DOMAIN LazyAttrs : \A a \in DOMAIN LazyAttrs[kind] :
          (/\ obj.kind = kind
           /\ Reads(a)
           /\ ~LazyAttrs[kind][a].property
           /\ obj.data[a] # NoneNum)
            => /\ ~ThisAccess.loaded
               /\ ThisAccess.value = obj.data[a]
               /\ ThisAccess.error = "none"
               /\ log' = log
               /\ obj' = obj]_vars

\* a bike built with a brand: the brand was read, a description was assigned
\* and then read, all without a load
C28_Witness ==
    /\ obj.kind = "ScrapedBike"
    /\ Len(hist) = 3
    /\ hist[1].op = "__get__" /\ hist[1].attr = "brand_name"
    /\ hist[1].value = Some("Trek") /\ ~hist[1].loaded
    /\ hist[2].op = "__set__" /\ hist[2].attr = "description"
    /\ hist[3].op = "__get__" /\ hist[3].attr = "description"
    /\ hist[3].value = hist[2].value /\ ~hist[3].loaded
    /\ log = <<>>
    /\ obj.cache = EmptyDict

\* ================================================== properties: the export
\* the latest operation was an export
Exported == ret.op = "get_activity_data"
\* the requests the latest export sent
ExportRequests == SubSeq(log, Len(log) - Len(received) + 1, Len(log))
\* the export asked for the original file with a fallback format other than
\* the original one, and the first answer was JSON
AnsweredWithJson(fallback) ==
    /\ Exported
    /\ ret.arg.fmt = "original"
    /\ ret.arg.json_fmt = fallback
    /\ received # <<>>
    /\ received[1].status_code = 200
    /\ received[1].content_type # NoneNum
    /\ lower(received[1].content_type[1]) = ApplicationJson
\* how an export ends whose last answer is answer
Ending(answer) ==
    IF answer.status_code # 200 THEN Outcome("get_activity_data", "Fault",
             "Status code received when trying to download an activity", answer.status_code)
    ELSE Outcome("get_activity_data", _make_export_file(answer, ret.arg.activity_id).error,
                 "", 0)

C23_DefaultFallback ==
    (Exported /\ ret.arg.json_fmt = PyNone /\ ret.arg.fmt \in DataFormatValues)
       => /\ received # <<>>
          /\ ExportRequests[1].service = ExportService(ret.arg.fmt)
          /\ AnsweredWithJson(PyNone)
                => (Len(received) = 2
                      /\ ExportRequests[2].service = ExportService("gpx"))

\* ============================================== properties: challenges
\* get_challenge has just run on a page the server served with success
ChallengeServed == ret.op = "get_challenge" /\ ret.arg.page.ok
\* the layouts that hold the challenge's data on the page
ReactHasData == ret.arg.page.react = "complete"
InlineHasData == ret.arg.page.script = "complete"

\* C21: get_challenge returns the data of the react layout when that layout
\* has it, else the data of the inline layout when that layout has it; it
\* ends with a ScrapingError only when neither layout has the data.
C21_FallbackToInline ==
    ChallengeServed =>
       /\ ReactHasData => (outcome.error = "none" /\ ret.value.name = "react name")
       /\ (~ReactHasData /\ InlineHasData)
             => (outcome.error = "none" /\ ret.value.name = "inline name")
       /\ outcome.error = "ScrapingError" => (~ReactHasData /\ ~InlineHasData)

\* what the code does: the page's react div alone decides which layout is
\* read.  With the div the inline script is never looked at, and a div
\* without the data ends the call with an error; without the div the call
\* ends as the inline layout does.
C21_DivDecides ==
    ChallengeServed =>
       /\ ret.arg.page.react = "absent"
             => /\ InlineHasData => (outcome.error = "none"
                                       /\ ret.value.name = "inline name")
                /\ ~InlineHasData => outcome.error = "ScrapingError"
       /\ ReactHasData => (outcome.error = "none" /\ ret.value.name = "react name")
       /\ ret.arg.page.react \notin {"absent", "complete"} => outcome.error # "none"

\* ============================================== properties: the athlete
\* the caller holds an athlete that get_athlete returned for another athlete
\* than the logged-in one
OtherAthlete ==
    obj.kind = "ScrapedAthlete" /\ obj.via = "get_athlete" /\ obj.id # Some(athlete_id)
\* the step reads the bikes or the shoes of the athlete and runs through them
GearRead == Len(hist') = Len(hist) + 1 /\ ThisAccess.op = "list"
\* the requests for an athlete's page in a log
AthleteGets(l) == Cardinality({i \in DOMAIN l : l[i].service = "athletes"})

\* C24: an athlete that get_athlete returned for another athlete than the
\* logged-in one holds lists for bikes and shoes (possibly empty), whose
\* members carry an id and a distance only; reading them calls no
\* load_attribute, fills no cache and sends no request.  For any athlete,
\* reading bikes or shoes and running through them ends after at most one
\* request, so get_athlete is entered at most once, and not at all for the
\* logged-in athlete.
C24_StubsStopLoading ==
    /\ [](OtherAthlete =>
            /\ obj.data["bikes"] # NoneNum /\ obj.data["shoes"] # NoneNum
            /\ \A k \in {"bikes", "shoes"} : \A i \in DOMAIN obj.data[k][1] :
                  DOMAIN obj.data[k][1][i] = {"id", "distance"}
            /\ obj.cache = EmptyDict
            /\ \A i \in DOMAIN hist : ~hist[i].loaded)
    /\ [][GearRead =>
            /\ OtherAthlete => (log' = log /\ obj' = obj /\ ThisAccess.error = "none"
                                  /\ ThisAccess.value = obj.data[ThisAccess.attr][1])
            /\ Len(log') <= Len(log) + 1
            /\ AthleteGets(log') <= AthleteGets(log) + 1
            /\ obj.id = Some(athlete_id) => AthleteGets(log') = AthleteGets(log)]_vars

\* another athlete's page showed one bike with a link; its bikes and shoes
\* were read without a request beyond the one for the page
C24_Witness ==
    /\ OtherAthlete
    /\ obj.data["bikes"] = Some(<<[id |-> <<"b", "7">>, distance |-> 5000]>>)
    /\ Len(hist) = 2
    /\ hist[1].op = "list" /\ hist[1].attr = "bikes" /\ ~hist[1].loaded
    /\ hist[1].value = obj.data["bikes"][1]
    /\ hist[2].op = "list" /\ hist[2].attr = "shoes" /\ ~hist[2].loaded
    /\ Len(log) = 1
    /\ log[1].service = "athletes" /\ log[1].id = athlete_id + 1
====
